---- MODULE Spec2Model ----
(***************************************************************************)
(* Document ingestion and extraction pipeline of the rent-roll processor:  *)
(* readability classification, text recovery (direct extraction or OCR),   *)
(* pattern extraction, consolidation, validation and unit-type inference.  *)
(*                                                                         *)
(* Text is a sequence of one-character strings, so that strip, split, join *)
(* and the regular expressions are computed character by character.        *)
(***************************************************************************)
EXTENDS Integers, Sequences, FiniteSets, TLC

VARIABLES
    doc,              \* the PDF file at pdf_path and how the libraries fare on it
    tesseract,        \* whether pytesseract.get_tesseract_version() succeeds
    pc,               \* position inside process_document
    is_readable,      \* result of is_machine_readable
    text,             \* the recovered text
    raised,           \* the exception process_document raised, or "none"
    calls,            \* the collaborators invoked so far, in order
    structured_data,  \* result of extract_structured_data
    validated_data,   \* result of validate_extracted_data
    line,             \* argument of _parse_table_row
    record,           \* result of _parse_table_row
    data_points,      \* argument of _consolidate_data
    consolidated,     \* result of _consolidate_data
    data,             \* argument of _infer_unit_type
    unit_type,        \* result of _infer_unit_type
    unit_records,     \* result of create_unit_records: the unit_type of each UnitCreate
    summary,          \* result of extract_summary_statistics
    compiled_patterns, \* FinancialDataExtractor.compiled_patterns of the shared parser
    runs,             \* concurrent extraction runs on the shared parser
    long_text,        \* argument of _split_text
    start,            \* local start of _split_text
    chunks,           \* local chunks of _split_text: the windows taken so far
    chunk_size,       \* parameter chunk_size of _split_text
    overlap,          \* parameter overlap of _split_text
    line_data,        \* result of _extract_from_line
    temp_file,        \* the upload's temporary file: "none", "exists" or "deleted"
    temp_path,        \* whether upload_document has bound its local temp_path
    caught,           \* the exception caught by upload_document, or "none"
    status_code,      \* HTTP status of the upload response, 0 before it is sent
    detail,           \* detail of the HTTPException sent, or "none"
    background_tasks, \* the scheduled task: "none", "scheduled", "running" or "done"
    outcome           \* how process_document_background ended, or "none"

vars == <<doc, tesseract, pc, is_readable, text, raised, calls, structured_data,
          validated_data, line, record, data_points, consolidated, data, unit_type,
          unit_records, summary, compiled_patterns, runs, long_text, start, chunks,
          chunk_size, overlap, line_data,
          temp_file, temp_path, caught, status_code, detail, background_tasks, outcome>>

pipelineVars == <<doc, tesseract, pc, is_readable, text, raised, calls,
                  structured_data, validated_data>>
rowVars == <<line, record>>
consolidateVars == <<data_points, consolidated>>
pipelineVarsButPc == <<doc, tesseract, is_readable, text, raised, calls,
                       structured_data, validated_data>>
inferVars == <<data, unit_type>>
builderVars == <<unit_records>>
summaryVars == <<summary>>
extractorVars == <<compiled_patterns, runs>>
splitVars == <<long_text, start, chunks, chunk_size, overlap>>
lineVars == <<line_data>>
uploadVars == <<temp_file, temp_path, caught, status_code, detail, background_tasks,
                outcome>>
otherVars == <<builderVars, summaryVars, extractorVars, splitVars, lineVars, uploadVars>>

(***************************************************************************)
(* Characters and strings                                                  *)
(***************************************************************************)
Digit == {"0", "1", "2", "3", "4", "5", "6", "7", "8", "9"}
Upper == {"A", "B", "C", "D", "E", "F", "G", "H", "I", "J", "K", "L", "M",
          "N", "O", "P", "Q", "R", "S", "T", "U", "V", "W", "X", "Y", "Z"}
Lower == {"a", "b", "c", "d", "e", "f", "g", "h", "i", "j", "k", "l", "m",
          "n", "o", "p", "q", "r", "s", "t", "u", "v", "w", "x", "y", "z"}
Letter == Upper \cup Lower
Whitespace == {" ", "\t", "\n", "\r"}

SetMin(S) == CHOOSE x \in S : \A y \in S : x <= y
SetMax(S) == CHOOSE x \in S : \A y \in S : y <= x
Min2(a, b) == IF a <= b THEN a ELSE b

\* bool(s.strip()) is False
IsBlank(s) == \A i \in 1..Len(s) : s[i] \in Whitespace

\* str.strip()
Strip(s) ==
    IF IsBlank(s) THEN <<>>
    ELSE LET ink == {i \in 1..Len(s) : s[i] \notin Whitespace}
         IN  SubSeq(s, SetMin(ink), SetMax(ink))

\* s.startswith(p) at index i (1-based)
MatchAt(s, i, p) ==
    /\ i + Len(p) - 1 <= Len(s)
    /\ \A k \in 1..Len(p) : s[i + k - 1] = p[k]

\* p in s
Contains(s, p) == \E i \in 1..(Len(s) + 1) : MatchAt(s, i, p)

\* s.split('\n')
SplitLines(s) ==
    LET breaks == {i \in 1..Len(s) : s[i] = "\n"}
        \* position of the k-th line break; 0 and Len(s) + 1 bound the text
        brk(k) == IF k = 0 THEN 0
                  ELSE IF k > Cardinality(breaks) THEN Len(s) + 1
                  ELSE CHOOSE i \in breaks : Cardinality({j \in breaks : j < i}) = k - 1
    IN  [k \in 1..(Cardinality(breaks) + 1) |-> SubSeq(s, brk(k - 1) + 1, brk(k) - 1)]

\* sep.join(parts)
RECURSIVE Join(_, _)
Join(parts, sep) ==
    IF Len(parts) = 0 THEN <<>>
    ELSE IF Len(parts) = 1 THEN parts[1]
    ELSE parts[1] \o sep \o Join(Tail(parts), sep)

DigitChar(d) ==
    CASE d = 0 -> "0" [] d = 1 -> "1" [] d = 2 -> "2" [] d = 3 -> "3" [] d = 4 -> "4"
      [] d = 5 -> "5" [] d = 6 -> "6" [] d = 7 -> "7" [] d = 8 -> "8" [] d = 9 -> "9"
DigitVal(c) ==
    CASE c = "0" -> 0 [] c = "1" -> 1 [] c = "2" -> 2 [] c = "3" -> 3 [] c = "4" -> 4
      [] c = "5" -> 5 [] c = "6" -> 6 [] c = "7" -> 7 [] c = "8" -> 8 [] c = "9" -> 9

\* str(n) for a natural number, as the f-strings format i + 1
RECURSIVE IntToStr(_)
IntToStr(n) == IF n < 10 THEN <<DigitChar(n)>>
               ELSE Append(IntToStr(n \div 10), DigitChar(n % 10))

NL == <<"\n">>
NLNL == <<"\n", "\n">>

\* f"--- Page {n} ---"
PageMarker(n) ==
    <<"-", "-", "-", " ", "P", "a", "g", "e", " ">> \o IntToStr(n) \o <<" ", "-", "-", "-">>

(***************************************************************************)
(* Readability classification                                              *)
(***************************************************************************)
PagesToCheck == 3
ReadableThreshold == 20

\* The for loop of is_machine_readable: the summed stripped lengths of pages
\* page_num..pages_to_check, or -1 when page.get_text() raises on one of them.
RECURSIVE ReadableLoop(_, _, _, _)
ReadableLoop(d, page_num, pages_to_check, text_length) ==
    IF page_num > pages_to_check THEN text_length
    ELSE IF d.fitzFailAt = page_num THEN -1
    ELSE ReadableLoop(d, page_num + 1, pages_to_check,
                      text_length + Len(Strip(d.pages[page_num].native)))

is_machine_readable_viaAllPages(d) ==
    IF ~d.fitzOpens THEN FALSE
    ELSE IF Len(d.pages) = 0 THEN FALSE
    ELSE LET n == ReadableLoop(d, 1, Len(d.pages), 0)
         IN  IF n < 0 THEN FALSE ELSE n > ReadableThreshold

is_machine_readable(d) ==
    IF ~d.fitzOpens THEN FALSE
    ELSE IF Len(d.pages) = 0 THEN FALSE
    ELSE LET n == ReadableLoop(d, 1, Min2(PagesToCheck, Len(d.pages)), 0)
         IN  IF n < 0 THEN FALSE ELSE n > ReadableThreshold

(***************************************************************************)
(* Direct text extraction                                                  *)
(***************************************************************************)
\* The for loop of extract_text_pymupdf over pages page_num..len(doc).
RECURSIVE PymupdfLoop(_, _)
PymupdfLoop(d, page_num) ==
    IF page_num > Len(d.pages) THEN <<>>
    ELSE LET t == d.pages[page_num].native
         IN  (IF ~IsBlank(t) THEN <<PageMarker(page_num) \o NL \o t>> ELSE <<>>)
             \o PymupdfLoop(d, page_num + 1)

extract_text_pymupdf(d) ==
    IF ~d.fitzOpens \/ d.fitzFailAt \in 1..Len(d.pages) THEN <<>>
    ELSE Join(PymupdfLoop(d, 1), NLNL)

\* " | ".join(str(cell) if cell else "" for cell in row); a None cell is <<>>
RowText(row) == Join(row, <<" ", "|", " ">>)

\* the rows of one table, skipping rows that are empty or hold no cell
RECURSIVE TableRows(_, _)
TableRows(table, r) ==
    IF r > Len(table) THEN <<>>
    ELSE (IF Len(table[r]) > 0 /\ \E c \in 1..Len(table[r]) : Len(table[r][c]) > 0
          THEN RowText(table[r]) \o NL ELSE <<>>)
         \o TableRows(table, r + 1)

RECURSIVE TablesText(_, _)
TablesText(tables, k) ==
    IF k > Len(tables) THEN <<>>
    ELSE <<"\n", "T", "a", "b", "l", "e", " ">> \o IntToStr(k) \o <<":", "\n">>
         \o TableRows(tables[k], 1) \o TablesText(tables, k + 1)

PlumberPage(p, n) ==
    PageMarker(n) \o NL
    \o (IF Len(p.plumb) > 0 THEN p.plumb \o NL ELSE <<>>)
    \o (IF Len(p.tables) > 0
        THEN <<"\n", "=", "=", "=", " ", "T", "A", "B", "L", "E", "S", " ",
               "=", "=", "=", "\n">> \o TablesText(p.tables, 1)
        ELSE <<>>)

RECURSIVE PlumberLoop(_, _)
PlumberLoop(d, i) ==
    IF i > Len(d.pages) THEN <<>>
    ELSE LET page_content == PlumberPage(d.pages[i], i)
         IN  (IF Strip(page_content) # PageMarker(i) THEN <<page_content>> ELSE <<>>)
             \o PlumberLoop(d, i + 1)

extract_text_pdfplumber(d) ==
    IF d.plumberFails THEN <<>>
    ELSE Join(PlumberLoop(d, 1), NLNL)

(***************************************************************************)
(* OCR                                                                     *)
(***************************************************************************)
\* preprocess_image: the binarized image, or the original one on any error
preprocess_image(p) == IF p.preFails THEN "original" ELSE "preprocessed"

\* extract_text_from_image: the stripped recognition of the preprocessed image,
\* "" when image_to_string raises
extract_text_from_image(p) ==
    LET r == IF preprocess_image(p) = "original" THEN p.ocrOrig ELSE p.ocrPre
    IN  IF r.raises THEN <<>> ELSE Strip(r.out)

\* pdf_to_images: one image per page, [] when convert_from_path raises
pdf_to_images(d) == IF d.popplerFails THEN <<>> ELSE d.pages

\* the loop numbering the pages it keeps 1, 2, ... instead of by position
RECURSIVE OcrKept(_, _, _)
OcrKept(images, i, n) ==
    IF i > Len(images) THEN <<>>
    ELSE LET t == extract_text_from_image(images[i])
         IN  IF Len(t) > 0 THEN <<PageMarker(n) \o NL \o t>> \o OcrKept(images, i + 1, n + 1)
             ELSE OcrKept(images, i + 1, n)
OcrLoop_renumber(images, i) == OcrKept(images, i, 1)

\* The for loop of extract_text_from_pdf over images i..len(images).
RECURSIVE OcrLoop(_, _)
OcrLoop(images, i) ==
    IF i > Len(images) THEN <<>>
    ELSE LET t == extract_text_from_image(images[i])
         IN  (IF Len(t) > 0 THEN <<PageMarker(i) \o NL \o t>> ELSE <<>>)
             \o OcrLoop(images, i + 1)

extract_text_from_pdf(d) ==
    LET images == pdf_to_images(d)
    IN  IF Len(images) = 0 THEN <<>>
        ELSE Join(OcrLoop(images, 1), NLNL)

(***************************************************************************)
(* Python values: every dict value carries its type                        *)
(***************************************************************************)
None == [t |-> "None", v |-> 0]
Str(s) == [t |-> "str", v |-> s]
Float(cents) == [t |-> "float", v |-> cents]      \* a float, in hundredths
Decimal(cents) == [t |-> "Decimal", v |-> cents]  \* a decimal.Decimal, in hundredths
PyInt(n) == [t |-> "int", v |-> n]
Date(y, m, d) == [t |-> "date", v |-> <<y, m, d>>]
List(l) == [t |-> "list", v |-> l]

\* bool(x)
Truthy(x) ==
    CASE x.t = "None" -> FALSE
      [] x.t \in {"str", "list"} -> Len(x.v) > 0
      [] x.t \in {"float", "Decimal", "int"} -> x.v # 0
      [] x.t = "date" -> TRUE

EmptyDict == [k \in {} |-> None]
\* d.get(k)
Get(d, k) == IF k \in DOMAIN d THEN d[k] ELSE None
\* d.get(k, default)
GetOr(d, k, default) == IF k \in DOMAIN d THEN d[k] ELSE default
\* d[k] = x
Put(d, k, x) == [f \in (DOMAIN d) \cup {k} |-> IF f = k THEN x ELSE d[f]]

(***************************************************************************)
(* The compiled patterns (all compiled with re.IGNORECASE)                 *)
(***************************************************************************)
NoMatch == [found |-> FALSE, group |-> <<>>]
Match(s, from, to) == [found |-> TRUE, group |-> SubSeq(s, from, to - 1)]

\* index after the longest run of characters of class C that starts at i
RunEnd(s, i, C) ==
    LET stops == {j \in i..Len(s) : s[j] \notin C}
    IN  IF i > Len(s) THEN i
        ELSE IF stops = {} THEN Len(s) + 1
        ELSE SetMin(stops)
\* the same for a run of at most max characters
RunEndMax(s, i, C, max) == Min2(RunEnd(s, i, C), i + max)

IsAt(s, i, C) == i <= Len(s) /\ s[i] \in C

\* the leftmost match of a pattern whose match at i ends before At(s, i)
\* (At(s, i) = 0: no match at i)
Search(s, At(_, _)) ==
    LET hits == {i \in 1..Len(s) : At(s, i) > 0}
    IN  IF hits = {} THEN NoMatch
        ELSE Match(s, SetMin(hits), At(s, SetMin(hits)))

\* 'unit_number': (\d{2}-\d{3}|\d{1,3}[A-Z]?\d{0,3})
UnitNumberAt(s, i) ==
    IF /\ i + 5 <= Len(s)
       /\ s[i] \in Digit /\ s[i + 1] \in Digit /\ s[i + 2] = "-"
       /\ s[i + 3] \in Digit /\ s[i + 4] \in Digit /\ s[i + 5] \in Digit
    THEN i + 6
    ELSE IF IsAt(s, i, Digit)
    THEN LET a == RunEndMax(s, i, Digit, 3)
             b == IF IsAt(s, a, Letter) THEN a + 1 ELSE a
         IN  RunEndMax(s, b, Digit, 3)
    ELSE 0
unit_number_search(s) == Search(s, UnitNumberAt)

\* 'unit_type': (MBL\d+AC\d+|[A-Z]{2,4}\d+[A-Z]*\d*)
UnitTypeAt(s, i) ==
    LET d1 == RunEnd(s, i + 3, Digit)
        d2 == RunEnd(s, d1 + 2, Digit)
        mbl == /\ IsAt(s, i, {"M", "m"}) /\ IsAt(s, i + 1, {"B", "b"})
               /\ IsAt(s, i + 2, {"L", "l"})
               /\ d1 > i + 3
               /\ IsAt(s, d1, {"A", "a"}) /\ IsAt(s, d1 + 1, {"C", "c"})
               /\ d2 > d1 + 2
        l == RunEnd(s, i, Letter)
        n == RunEnd(s, l, Digit)
    IN  IF mbl THEN d2
        ELSE IF l - i >= 2 /\ l - i <= 4 /\ n > l
        THEN RunEnd(s, RunEnd(s, n, Letter), Digit)
        ELSE 0
unit_type_search(s) == Search(s, UnitTypeAt)

\* 'rent_amount': \$?\s*([0-9,]+\.?\d{0,2}); the group of a match at i
RentAt(s, i) ==
    LET j == IF IsAt(s, i, {"$"}) THEN i + 1 ELSE i
        k == RunEnd(s, j, Whitespace)
        e == RunEnd(s, k, Digit \cup {","})
        d == IF IsAt(s, e, {"."}) THEN e + 1 ELSE e
    IN  IF e = k THEN [from |-> 0, to |-> 0]
        ELSE [from |-> k, to |-> RunEndMax(s, d, Digit, 2)]

\* compiled_patterns['rent_amount'].findall(s), scanning from i
RECURSIVE RentFindAll(_, _)
RentFindAll(s, i) ==
    LET hits == {j \in i..Len(s) : RentAt(s, j).to > 0}
        m == RentAt(s, SetMin(hits))
    IN  IF hits = {} THEN <<>>
        ELSE <<SubSeq(s, m.from, m.to - 1)>> \o RentFindAll(s, m.to)
rent_amount_findall(s) == RentFindAll(s, 1)

\* 'tenant_name': ([A-Z][a-z]+(?:\s+[A-Z][a-z]+)*(?:\s*,\s*[A-Z][a-z]+)*)
IsWordAt(s, i) == RunEnd(s, i, Letter) - i >= 2
RECURSIVE MoreWords(_, _)
MoreWords(s, e) ==
    LET k == RunEnd(s, e, Whitespace)
    IN  IF k > e /\ IsWordAt(s, k) THEN MoreWords(s, RunEnd(s, k, Letter)) ELSE e
RECURSIVE MoreCommaWords(_, _)
MoreCommaWords(s, e) ==
    LET k == RunEnd(s, e, Whitespace)
        w == RunEnd(s, k + 1, Whitespace)
    IN  IF IsAt(s, k, {","}) /\ IsWordAt(s, w)
        THEN MoreCommaWords(s, RunEnd(s, w, Letter)) ELSE e
TenantNameAt(s, i) ==
    IF IsWordAt(s, i) THEN MoreCommaWords(s, MoreWords(s, RunEnd(s, i, Letter))) ELSE 0
tenant_name_search(s) == Search(s, TenantNameAt)

\* 'date': (\d{1,2}\/\d{1,2}\/\d{2,4}); index after a match at i, or 0
DateAt(s, i) ==
    LET a == RunEndMax(s, i, Digit, 2)
        b == RunEndMax(s, a + 1, Digit, 2)
        c == RunEndMax(s, b + 1, Digit, 4)
    IN  IF /\ a > i /\ IsAt(s, a, {"/"})
           /\ b > a + 1 /\ IsAt(s, b, {"/"})
           /\ c >= b + 3
        THEN c ELSE 0
RECURSIVE DateFindAll(_, _)
DateFindAll(s, i) ==
    LET hits == {j \in i..Len(s) : DateAt(s, j) > 0}
        at == SetMin(hits)
    IN  IF hits = {} THEN <<>>
        ELSE <<SubSeq(s, at, DateAt(s, at) - 1)>> \o DateFindAll(s, DateAt(s, at))
date_findall(s) == DateFindAll(s, 1)

\* case-insensitive literal at i
RECURSIVE MatchAtCI(_, _, _)
MatchAtCI(s, i, lits) ==
    IF Len(lits) = 0 THEN TRUE
    ELSE IsAt(s, i, Head(lits)) /\ MatchAtCI(s, i + 1, Tail(lits))

\* (?:sq\.?\s*ft\.?|sqft|square\s*feet) at i
SqftUnitAt(s, i) ==
    LET sq == MatchAtCI(s, i, <<{"S", "s"}, {"Q", "q"}>>)
        dot == IF IsAt(s, i + 2, {"."}) THEN i + 3 ELSE i + 2
        ft(k) == MatchAtCI(s, k, <<{"F", "f"}, {"T", "t"}>>)
    IN  \/ sq /\ (ft(RunEnd(s, dot, Whitespace)) \/ ft(RunEnd(s, i + 2, Whitespace)))
        \/ /\ MatchAtCI(s, i, <<{"S", "s"}, {"Q", "q"}, {"U", "u"}, {"A", "a"},
                                {"R", "r"}, {"E", "e"}>>)
           /\ MatchAtCI(s, RunEnd(s, i + 6, Whitespace),
                        <<{"F", "f"}, {"E", "e"}, {"E", "e"}, {"T", "t"}>>)

\* 'square_feet': (\d+(?:,\d{3})*)\s*(?:sq\.?\s*ft\.?|sqft|square\s*feet)
RECURSIVE ThousandsEnd(_, _)
ThousandsEnd(s, e) ==
    IF IsAt(s, e, {","}) /\ RunEndMax(s, e + 1, Digit, 3) = e + 4
    THEN ThousandsEnd(s, e + 4) ELSE e
\* index after the number of a match at i, or 0
SquareFeetAt(s, i) ==
    LET e == ThousandsEnd(s, RunEnd(s, i, Digit))
    IN  IF IsAt(s, i, Digit) /\ SqftUnitAt(s, RunEnd(s, e, Whitespace)) THEN e ELSE 0
square_feet_search(s) == Search(s, SquareFeetAt)

(***************************************************************************)
(* String literals of the extractor                                        *)
(***************************************************************************)
s_vacant == <<"v", "a", "c", "a", "n", "t">>
s_occupied == <<"o", "c", "c", "u", "p", "i", "e", "d">>
s_unknown == <<"u", "n", "k", "n", "o", "w", "n">>
s_Unknown == <<"U", "n", "k", "n", "o", "w", "n">>
s_Vacant == <<"V", "a", "c", "a", "n", "t">>
s_Available == <<"A", "v", "a", "i", "l", "a", "b", "l", "e">>
s_Occupied == <<"O", "c", "c", "u", "p", "i", "e", "d">>
s_Rented == <<"R", "e", "n", "t", "e", "d">>
s_available == <<"a", "v", "a", "i", "l", "a", "b", "l", "e">>
s_rented == <<"r", "e", "n", "t", "e", "d">>
s_MBL == <<"M", "B", "L">>
s_1BR == <<"1", "B", "R">>
s_2BR == <<"2", "B", "R">>
s_3BR == <<"3", "B", "R">>
s_Studio == <<"S", "t", "u", "d", "i", "o">>
non_names == << <<"U", "n", "i", "t">>, <<"R", "e", "n", "t">>, <<"T", "o", "t", "a", "l">>,
                <<"N", "o", "t", "i", "c", "e">>, s_Occupied, s_Vacant,
                <<"S", "t", "a", "t", "u", "s">> >>
artifacts == << <<"$">>, <<",">>, <<"r", "e", "n", "t">>, <<"t", "o", "t", "a", "l">>,
                <<"u", "n", "i", "t">> >>

UpperSeq == <<"A", "B", "C", "D", "E", "F", "G", "H", "I", "J", "K", "L", "M",
              "N", "O", "P", "Q", "R", "S", "T", "U", "V", "W", "X", "Y", "Z">>
LowerSeq == <<"a", "b", "c", "d", "e", "f", "g", "h", "i", "j", "k", "l", "m",
              "n", "o", "p", "q", "r", "s", "t", "u", "v", "w", "x", "y", "z">>
ToLower(c) == IF c \in Upper
              THEN LowerSeq[CHOOSE i \in 1..Len(UpperSeq) : UpperSeq[i] = c] ELSE c
\* s.lower()
LowerCase(s) == [i \in 1..Len(s) |-> ToLower(s[i])]

\* s.replace(p, '') for a non-empty p, scanning from i
RECURSIVE RemoveFrom(_, _, _)
RemoveFrom(s, i, p) ==
    LET hits == {j \in i..Len(s) : MatchAt(s, j, p)}
    IN  IF hits = {} THEN SubSeq(s, i, Len(s))
        ELSE SubSeq(s, i, SetMin(hits) - 1) \o RemoveFrom(s, SetMin(hits) + Len(p), p)
Remove(s, p) == RemoveFrom(s, 1, p)

\* s.isalpha()
IsAlpha(s) == Len(s) > 0 /\ \A i \in 1..Len(s) : s[i] \in Letter

RECURSIVE StrToInt(_)
StrToInt(s) == IF Len(s) = 0 THEN 0
               ELSE 10 * StrToInt(SubSeq(s, 1, Len(s) - 1)) + DigitVal(s[Len(s)])

RECURSIVE SeqMax(_)
SeqMax(q) == IF Len(q) = 1 THEN q[1]
             ELSE LET m == SeqMax(Tail(q)) IN IF q[1] >= m THEN q[1] ELSE m

(***************************************************************************)
(* Amounts and dates                                                       *)
(***************************************************************************)
\* float(t) for t = digits [. digits], in hundredths; ok = FALSE when float()
\* raises ValueError (t holds no digit)
FloatOfPlain(t, dots) ==
    IF \A i \in 1..Len(t) : t[i] \notin Digit
    THEN [ok |-> FALSE, cents |-> 0]
    ELSE IF dots = {} THEN [ok |-> TRUE, cents |-> 100 * StrToInt(t)]
    ELSE [ok |-> TRUE,
          cents |-> 100 * StrToInt(SubSeq(t, 1, SetMin(dots) - 1))
                    + (IF Len(t) - SetMin(dots) = 1 THEN 10 ELSE 1)
                      * StrToInt(SubSeq(t, SetMin(dots) + 1, Len(t)))]
FloatOf(t) == FloatOfPlain(t, {i \in 1..Len(t) : t[i] = "."})

\* float(match.replace(',', '')) for a rent_amount group
ParseAmount(m) == FloatOf(SelectSeq(m, LAMBDA c : c # ","))

RentFilter == 100   \* "if amount > 100"

\* "if amount > 100: amounts.append(amount)"
KeepRowAmount(a) == IF a.ok /\ a.cents > 100 * RentFilter THEN <<a.cents>> ELSE <<>>

\* the amounts list built by _parse_table_row from rent_matches
RECURSIVE RowAmounts(_)
RowAmounts(rent_matches) ==
    IF Len(rent_matches) = 0 THEN <<>>
    ELSE KeepRowAmount(ParseAmount(Head(rent_matches))) \o RowAmounts(Tail(rent_matches))

KeepLineAmount(a) == IF a.ok THEN <<a.cents>> ELSE <<>>

\* the amounts list built by _extract_from_line from rent_matches
RECURSIVE LineAmounts(_)
LineAmounts(rent_matches) ==
    IF Len(rent_matches) = 0 THEN <<>>
    ELSE KeepLineAmount(ParseAmount(Head(rent_matches))) \o LineAmounts(Tail(rent_matches))

IsLeap(y) == (y % 4 = 0 /\ y % 100 # 0) \/ y % 400 = 0
DaysIn(m, y) == IF m = 2 THEN (IF IsLeap(y) THEN 29 ELSE 28)
                ELSE IF m \in {4, 6, 9, 11} THEN 30 ELSE 31
ValidDate(y, m, d) == y >= 1 /\ m >= 1 /\ m <= 12 /\ d >= 1 /\ d <= DaysIn(m, y)
MinYear == 2000
MaxYear == 2030
InYearRange(y) == MinYear <= y /\ y <= MaxYear
\* %y: 00..68 is 20xx, 69..99 is 19xx
TwoDigitYear(y) == IF y <= 68 THEN 2000 + y ELSE 1900 + y

\* the formats '%m/%d/%Y', '%m/%d/%y', '%d/%m/%Y' tried in that order on a/b/y
\* (the '-' formats never match what the date pattern delivers)
DateOf(a, b, y, ylen) ==
    IF ylen = 4 /\ ValidDate(y, a, b) /\ InYearRange(y) THEN Date(y, a, b)
    ELSE IF ylen = 2 /\ ValidDate(TwoDigitYear(y), a, b) /\ InYearRange(TwoDigitYear(y))
    THEN Date(TwoDigitYear(y), a, b)
    ELSE IF ylen = 4 /\ ValidDate(y, b, a) /\ InYearRange(y) THEN Date(y, b, a)
    ELSE None

DateFields(date_str, s1, s2) ==
    DateOf(StrToInt(SubSeq(date_str, 1, s1 - 1)),
           StrToInt(SubSeq(date_str, s1 + 1, s2 - 1)),
           StrToInt(SubSeq(date_str, s2 + 1, Len(date_str))),
           Len(date_str) - s2)

\* parse_date on a string a/b/y as the date pattern delivers it
parse_date(date_str) ==
    DateFields(date_str, SetMin({i \in 1..Len(date_str) : date_str[i] = "/"}),
               SetMax({i \in 1..Len(date_str) : date_str[i] = "/"}))

KeepDate(d) == IF Truthy(d) THEN <<d>> ELSE <<>>

RECURSIVE ParsedDates(_)
ParsedDates(date_matches) ==
    IF Len(date_matches) = 0 THEN <<>>
    ELSE KeepDate(parse_date(Head(date_matches))) \o ParsedDates(Tail(date_matches))

(***************************************************************************)
(* Table-row strategy                                                      *)
(***************************************************************************)
PutIf(cond, d, k, x) == IF cond THEN Put(d, k, x) ELSE d

\* "if 'Vacant' in line or 'Available' in line: ... elif ... else ..."
RowStatus(ln) ==
    IF Contains(ln, s_Vacant) \/ Contains(ln, s_Available) THEN s_vacant
    ELSE IF Contains(ln, s_Occupied) \/ Contains(ln, s_Rented) THEN s_occupied
    ELSE s_unknown

\* "if unit_match: record['unit_number'] = unit_match.group(1)", and alike
WithGroup(r, k, match) == PutIf(match.found, r, k, Str(match.group))

\* "if amounts: record['rent_amount'] = max(amounts)"
WithRent(r, amounts) ==
    IF Len(amounts) > 0 THEN Put(r, "rent_amount", Float(SeqMax(amounts))) ELSE r

\* "if tenant_match and record.get('status') == 'occupied': ..."
WithTenant(r, tenant_match, tenant_name) ==
    PutIf(/\ tenant_match.found
          /\ Get(r, "status") = Str(s_occupied)
          /\ \A w \in 1..Len(non_names) : ~Contains(tenant_name, non_names[w]),
          r, "tenant_name", Str(tenant_name))

\* the same with lease dates for exactly two dates only
WithDates_exactlyTwo(r, parsed_dates) ==
    IF Len(parsed_dates) = 2
    THEN Put(Put(r, "lease_start", parsed_dates[1]), "lease_end", parsed_dates[2])
    ELSE IF Len(parsed_dates) = 1 THEN Put(r, "lease_start", parsed_dates[1])
    ELSE r

\* "if len(parsed_dates) >= 2: ... elif len(parsed_dates) == 1: ..."
WithDates(r, parsed_dates) ==
    IF Len(parsed_dates) >= 2
    THEN Put(Put(r, "lease_start", parsed_dates[1]), "lease_end", parsed_dates[2])
    ELSE IF Len(parsed_dates) = 1 THEN Put(r, "lease_start", parsed_dates[1])
    ELSE r

RowTenant(r, tenant_match) == WithTenant(r, tenant_match, Strip(tenant_match.group))

\* the record of _parse_table_row before its final test, for the given amounts
RowRecord(ln, amounts) ==
    WithDates(
        RowTenant(
            Put(WithRent(WithGroup(WithGroup(EmptyDict, "unit_number",
                                             unit_number_search(ln)),
                                   "unit_type", unit_type_search(ln)),
                         amounts),
                "status", Str(RowStatus(ln))),
            tenant_name_search(ln)),
        ParsedDates(date_findall(ln)))

\* "if record.get('unit_number') and (record.get('rent_amount') or
\* record.get('status')): return record", else None
AcceptRow(r) ==
    IF /\ Truthy(Get(r, "unit_number"))
       /\ (Truthy(Get(r, "rent_amount")) \/ Truthy(Get(r, "status")))
    THEN r ELSE None

_parse_table_row(ln) == AcceptRow(RowRecord(ln, RowAmounts(rent_amount_findall(ln))))

\* the table-row test of _extract_table_data
IsTableRow(ln) == unit_number_search(ln).found /\ Len(rent_amount_findall(ln)) > 0

\* "if record: table_records.append(record)"
KeepRecord(rec) == IF rec # None THEN <<rec>> ELSE <<>>

TableLine(ln) ==
    IF Len(ln) > 0 /\ IsTableRow(ln) THEN KeepRecord(_parse_table_row(ln)) ELSE <<>>

RECURSIVE TableLoop(_, _)
TableLoop(lines, i) ==
    IF i > Len(lines) THEN <<>>
    ELSE TableLine(Strip(lines[i])) \o TableLoop(lines, i + 1)

_extract_table_data(txt) == TableLoop(SplitLines(txt), 1)

(***************************************************************************)
(* Line-fallback strategy and consolidation                                *)
(***************************************************************************)
\* "if 'vacant' in line.lower() or ...": the status, or <<>> when none is set
LowerStatus(low) ==
    IF Contains(low, s_vacant) \/ Contains(low, s_available) THEN s_vacant
    ELSE IF Contains(low, s_occupied) \/ Contains(low, s_rented) THEN s_occupied
    ELSE <<>>
LineStatus(ln) == LowerStatus(LowerCase(ln))

WithLineStatus(d, status) == PutIf(status # <<>>, d, "status", Str(status))
WithArea(d, sqft_match) ==
    PutIf(sqft_match.found, d, "area_sqft",
          PyInt(StrToInt(SelectSeq(sqft_match.group, LAMBDA c : c # ","))))
WithDateList(d, date_matches) ==
    PutIf(Len(date_matches) > 0, d, "dates", List(date_matches))
\* "return data if data else None"
DictOrNone(d) == IF DOMAIN d = {} THEN None ELSE d

\* _extract_from_line: the data dict, or None when it is empty
_extract_from_line(ln) ==
    DictOrNone(
        WithLineStatus(
            WithGroup(
                WithDateList(
                    WithArea(
                        WithRent(WithGroup(EmptyDict, "unit_number", unit_number_search(ln)),
                                 LineAmounts(rent_amount_findall(ln))),
                        square_feet_search(ln)),
                    date_findall(ln)),
                "tenant_name", tenant_name_search(ln)),
            LineStatus(ln)))

\* "if data_point: data_point['source_line'] = ...; data_point['raw_text'] = ..."
KeepPoint(data_point, line_num, ln) ==
    IF data_point # None
    THEN <<Put(Put(data_point, "source_line", PyInt(line_num + 1)), "raw_text", Str(ln))>>
    ELSE <<>>

FallbackLine(ln, line_num) ==
    IF Len(ln) >= 10 THEN KeepPoint(_extract_from_line(ln), line_num, ln) ELSE <<>>

\* the fallback loop of extract_structured_data over lines i..len(lines)
RECURSIVE FallbackLoop(_, _)
FallbackLoop(lines, i) ==
    IF i > Len(lines) THEN <<>>
    ELSE FallbackLine(Strip(lines[i]), i - 1) \o FallbackLoop(lines, i + 1)

\* index of unit_num in the insertion-ordered dict units, 0 when absent
UnitIndex(units, unit_num) ==
    IF \E i \in 1..Len(units) : units[i].key = unit_num
    THEN SetMin({i \in 1..Len(units) : units[i].key = unit_num})
    ELSE 0

\* the same test with the stored value ignored: the last value wins
Overwrites_lastWins(unit_data, point, k) ==
    k \in DOMAIN point /\ Truthy(point[k])

\* "if value and (key not in units[unit_num] or not units[unit_num][key])"
Overwrites(unit_data, point, k) ==
    /\ k \in DOMAIN point /\ Truthy(point[k])
    /\ (k \notin DOMAIN unit_data \/ ~Truthy(unit_data[k]))

\* "for key, value in point.items(): ... units[unit_num][key] = value"
MergePoint(unit_data, point) ==
    [k \in (DOMAIN unit_data) \cup {f \in DOMAIN point : Truthy(point[f])} |->
        IF Overwrites(unit_data, point, k) THEN point[k] ELSE unit_data[k]]

\* one iteration of the grouping loop of _consolidate_data
GroupPoint(units, point, unit_num, at) ==
    IF ~Truthy(unit_num) THEN units
    ELSE IF at = 0
    THEN Append(units, [key |-> unit_num, val |-> MergePoint(EmptyDict, point)])
    ELSE [units EXCEPT ![at].val = MergePoint(@, point)]

RECURSIVE GroupLoop(_, _, _)
GroupLoop(points, i, units) ==
    IF i > Len(points) THEN units
    ELSE GroupLoop(points, i + 1,
                   GroupPoint(units, points[i], Get(points[i], "unit_number"),
                              UnitIndex(units, Get(points[i], "unit_number"))))

\* "if 'status' not in unit_data: ..."
DefaultStatus(unit_data) ==
    IF "status" \in DOMAIN unit_data THEN unit_data
    ELSE Put(unit_data, "status",
             Str(IF Truthy(Get(unit_data, "tenant_name")) THEN s_occupied ELSE s_vacant))

RECURSIVE CleanLoop(_, _)
CleanLoop(units, i) ==
    IF i > Len(units) THEN <<>>
    ELSE (IF Truthy(Get(units[i].val, "unit_number"))
          THEN <<DefaultStatus(units[i].val)>> ELSE <<>>)
         \o CleanLoop(units, i + 1)

\* consolidation that hands every data point on as it is
_consolidate_data_keepsAll(points) == points

_consolidate_data(points) == CleanLoop(GroupLoop(points, 1, <<>>), 1)

\* "if table_data: return table_data", else the fallback
TableOrFallback(table_data, txt) ==
    IF Len(table_data) > 0 THEN table_data
    ELSE _consolidate_data(FallbackLoop(SplitLines(txt), 1))

extract_structured_data(txt) == TableOrFallback(_extract_table_data(txt), txt)

(***************************************************************************)
(* Validation                                                              *)
(***************************************************************************)
IsDigits(s) == Len(s) > 0 /\ \A i \in 1..Len(s) : s[i] \in Digit

FloatOfStr(s) ==
    IF \A i \in 1..Len(s) : s[i] \in Digit \cup {"."}
    THEN FloatOf(s) ELSE [ok |-> FALSE, cents |-> 0]

\* float(x), in hundredths; ok = FALSE on ValueError or TypeError.  A string is
\* read as plain decimal notation with at most two decimals.
PyFloat(x) ==
    CASE x.t \in {"float", "Decimal"} -> [ok |-> TRUE, cents |-> x.v]
      [] x.t = "int" -> [ok |-> TRUE, cents |-> 100 * x.v]
      [] x.t = "str" -> FloatOfStr(Strip(x.v))
      [] OTHER -> [ok |-> FALSE, cents |-> 0]

IntOfStr(s) == IF IsDigits(s) THEN [ok |-> TRUE, n |-> StrToInt(s)]
               ELSE [ok |-> FALSE, n |-> 0]

\* int(x); ok = FALSE on ValueError or TypeError
PyToInt(x) ==
    CASE x.t = "int" -> [ok |-> TRUE, n |-> x.v]
      [] x.t \in {"float", "Decimal"} -> [ok |-> TRUE, n |-> x.v \div 100]
      [] x.t = "str" -> IntOfStr(Strip(x.v))
      [] OTHER -> [ok |-> FALSE, n |-> 0]

\* "for artifact in artifacts: tenant_name = tenant_name.replace(artifact, '').strip()"
RECURSIVE StripArtifacts(_, _)
StripArtifacts(tenant_name, i) ==
    IF i > Len(artifacts) THEN tenant_name
    ELSE StripArtifacts(Strip(Remove(tenant_name, artifacts[i])), i + 1)

\* "if len(tenant_name) > 2 and tenant_name.replace(' ', '').isalpha()"
KeepTenant(tenant_name) ==
    IF Len(tenant_name) > 2 /\ IsAlpha(SelectSeq(tenant_name, LAMBDA c : c # " "))
    THEN Str(tenant_name) ELSE None

\* the cleaned tenant name, or None; str() of a value that is no string holds
\* digits or punctuation and is never kept
CleanTenant(x) ==
    IF x.t # "str" THEN None ELSE KeepTenant(StripArtifacts(Strip(x.v), 1))

\* the same with a rent outside [0, 50000] rejected
ValidRent_inRangeOnly(rent) ==
    IF rent.ok /\ rent.cents >= 0 /\ rent.cents <= 5000000 THEN Decimal(rent.cents) ELSE None
\* "record['rent_amount'] = Decimal(str(rent))", None when float() raises
ValidRent(rent) == IF rent.ok THEN Decimal(rent.cents) ELSE None
\* "record['area_sqft'] = area", None when int() raises
ValidArea(area) == IF area.ok THEN PyInt(area.n) ELSE None

CheckRent(rec) ==
    PutIf(Truthy(Get(rec, "rent_amount")), rec, "rent_amount",
          ValidRent(PyFloat(Get(rec, "rent_amount"))))
CheckArea(rec) ==
    PutIf(Truthy(Get(rec, "area_sqft")), rec, "area_sqft",
          ValidArea(PyToInt(Get(rec, "area_sqft"))))
CheckTenant(rec) ==
    PutIf(Truthy(Get(rec, "tenant_name")), rec, "tenant_name",
          CleanTenant(Get(rec, "tenant_name")))
\* the same default with the presence of the tenant_name key tested, not its value
EnsureStatus_keyPresent(rec) ==
    PutIf(~Truthy(Get(rec, "status")), rec, "status",
          Str(IF "tenant_name" \in DOMAIN rec THEN s_occupied ELSE s_vacant))
\* "if not record.get('status'): ..."
EnsureStatus(rec) ==
    PutIf(~Truthy(Get(rec, "status")), rec, "status",
          Str(IF Truthy(Get(rec, "tenant_name")) THEN s_occupied ELSE s_vacant))

\* the body of the loop of validate_extracted_data for a record that is kept
ValidateRecord(rec) == EnsureStatus(CheckTenant(CheckArea(CheckRent(rec))))

\* the loop dropping a record whose rent cannot be coerced
RECURSIVE ValidateLoop_dropsBadRent(_, _)
ValidateLoop_dropsBadRent(records, i) ==
    IF i > Len(records) THEN <<>>
    ELSE (IF Truthy(Get(records[i], "unit_number"))
             /\ (Truthy(Get(records[i], "rent_amount")) => PyFloat(Get(records[i], "rent_amount")).ok)
          THEN <<ValidateRecord(records[i])>> ELSE <<>>)
         \o ValidateLoop_dropsBadRent(records, i + 1)

RECURSIVE ValidateLoop(_, _)
ValidateLoop(records, i) ==
    IF i > Len(records) THEN <<>>
    ELSE (IF Truthy(Get(records[i], "unit_number"))
          THEN <<ValidateRecord(records[i])>> ELSE <<>>)
         \o ValidateLoop(records, i + 1)

validate_extracted_data(records) == ValidateLoop(records, 1)

(***************************************************************************)
(* Unit-type inference                                                     *)
(***************************************************************************)
\* isinstance(x, (int, float)) and x > n, for a whole number n
IsNumberOver(x, n) ==
    \/ x.t = "int" /\ x.v > n
    \/ x.t = "float" /\ x.v > 100 * n

_infer_unit_type(d) ==
    LET unit_type_raw == GetOr(d, "unit_type", Str(<<>>))
        rent_amount == GetOr(d, "rent_amount", PyInt(0))
        area_sqft == GetOr(d, "area_sqft", PyInt(0))
    IN  IF Truthy(unit_type_raw) /\ unit_type_raw # Str(s_Unknown)
        THEN IF Contains(unit_type_raw.v, s_MBL) /\ Contains(unit_type_raw.v, <<"2">>)
             THEN s_2BR
             ELSE IF Contains(unit_type_raw.v, s_MBL) /\ Contains(unit_type_raw.v, <<"3">>)
             THEN s_3BR
             ELSE IF Contains(unit_type_raw.v, s_MBL) /\ Contains(unit_type_raw.v, <<"1">>)
             THEN s_1BR
             ELSE unit_type_raw.v
        ELSE IF IsNumberOver(rent_amount, 2000) THEN s_3BR
        ELSE IF IsNumberOver(rent_amount, 1500) THEN s_2BR
        ELSE IF IsNumberOver(rent_amount, 1000) THEN s_1BR
        ELSE IF IsNumberOver(rent_amount, 0) THEN s_Studio
        ELSE IF IsNumberOver(area_sqft, 1200) THEN s_3BR
        ELSE IF IsNumberOver(area_sqft, 800) THEN s_2BR
        ELSE IF IsNumberOver(area_sqft, 500) THEN s_1BR
        ELSE IF IsNumberOver(area_sqft, 0) THEN s_Studio
        ELSE s_Unknown

(***************************************************************************)
(* Documents                                                               *)
(***************************************************************************)
l_rowA == <<"0","1","-","1","0","1"," ","M","B","L","2","A","C","6","0"," ","$","5","0",".","0","0"," ","$","1",",","5","1","1",".","0","0"," ","O","c","c","u","p","i","e","d">>
l_rowB == <<"0","1","-","1","0","1"," ","$","1",",","6","0","0",".","0","0"," ","V","a","c","a","n","t">>
l_title == <<"R","e","n","t"," ","R","o","l","l"," ","S","u","m","m","a","r","y"," ","R","e","p","o","r","t">>

Recognized(out) == [raises |-> FALSE, out |-> out]
Unrecognized == [raises |-> TRUE, out |-> <<>>]

\* A page: its text layer as PyMuPDF reads it (native), as pdfplumber reads it
\* (plumb, <<>> for None), the tables pdfplumber detects, whether OpenCV fails on
\* the page image, and what Tesseract makes of the binarized and of the original
\* image.
Page(native, plumb, tables, preFails, ocrPre, ocrOrig) ==
    [native |-> native, plumb |-> plumb, tables |-> tables, preFails |-> preFails,
     ocrPre |-> ocrPre, ocrOrig |-> ocrOrig]

PgBlank == Page(<<>>, <<>>, <<>>, FALSE, Recognized(<<>>), Recognized(<<>>))
PgSpace == Page(<<" ", "\n">>, <<" ">>, <<>>, FALSE, Recognized(<<" ", "\n">>),
                Recognized(<<" ", "\n">>))
PgRowA == Page(l_rowA \o NL, l_rowA, <<>>, FALSE, Recognized(l_rowA), Recognized(l_rowA))
PgRowB == Page(l_rowB \o NL, l_rowB,
               << << <<l_title, <<>>, <<>> >>,
                     << <<"0","1","-","1","0","1">>, <<"$","1",",","6","0","0",".","0","0">>, <<"V","a","c","a","n","t">> >> >> >>,
               FALSE, Recognized(l_rowB), Recognized(l_rowB))
PgNative == Page(l_title \o NL \o l_rowA \o NL, <<>>, <<>>, FALSE,
                 Recognized(l_title), Recognized(l_title))
PgScanA == Page(<<>>, <<>>, <<>>, FALSE, Recognized(l_rowA \o NL), Unrecognized)
PgScanB == Page(<<>>, <<>>, <<>>, TRUE, Unrecognized, Recognized(<<" ">> \o l_rowB))
PgScanBad == Page(<<>>, <<>>, <<>>, FALSE, Unrecognized, Recognized(l_rowA))

PageKinds == {PgBlank, PgSpace, PgRowA, PgRowB, PgNative, PgScanA, PgScanB, PgScanBad}

MaxPages == 2

RECURSIVE SeqsUpTo(_, _)
SeqsUpTo(S, n) ==
    IF n = 0 THEN {<<>>}
    ELSE LET shorter == SeqsUpTo(S, n - 1)
         IN  shorter \cup {Append(q, x) : q \in {r \in shorter : Len(r) = n - 1}, x \in S}

\* A file at pdf_path: whether it exists, whether fitz.open succeeds, the page on
\* which page.get_text() raises (0: none), whether pdfplumber and pdf2image raise.
File(pages, fitzOpens, fitzFailAt, plumberFails, popplerFails) ==
    [exists |-> TRUE, pages |-> pages, fitzOpens |-> fitzOpens, fitzFailAt |-> fitzFailAt,
     plumberFails |-> plumberFails, popplerFails |-> popplerFails]
MissingFile ==
    [exists |-> FALSE, pages |-> <<>>, fitzOpens |-> FALSE, fitzFailAt |-> 0,
     plumberFails |-> FALSE, popplerFails |-> FALSE]

FilesOver(kinds, n) ==
    {File(p, o, f, pf, rf) : p \in SeqsUpTo(kinds, n), o \in BOOLEAN, f \in 0..n,
                             pf \in BOOLEAN, rf \in BOOLEAN}

\* documents of one page more than the classifier reads, all pages alike
LongFiles(kinds) ==
    {File([i \in 1..(PagesToCheck + 1) |-> k], o, f, pf, rf) :
        k \in kinds, o \in BOOLEAN, f \in 0..(PagesToCheck + 1),
        pf \in BOOLEAN, rf \in BOOLEAN}

Docs ==
    {MissingFile}
    \cup {d \in FilesOver(PageKinds, MaxPages) : d.fitzFailAt <= Len(d.pages)}
    \cup LongFiles({PgRowA, PgNative, PgScanA})

\* Documents for the readability classifier: text layers of 0, 10, 11 and 24
\* characters once stripped, which pdfplumber does not see.
TextLayer(native) == Page(native, <<>>, <<>>, FALSE, Recognized(native), Recognized(native))
PgTen == TextLayer(<<" ","x","x","x","x"," ","x","x","x","x","x","\n">>)
PgEleven == TextLayer(<<"y","y","y","y","y","y","y","y","y","y","y"," ">>)
PgTitle == TextLayer(l_title)
ClassifierPageKinds == {PgBlank, PgTen, PgEleven, PgTitle}

MaxClassifierPages == 4

ClassifierDocs ==
    {MissingFile}
    \cup {File(p, o, f, FALSE, FALSE) :
            p \in SeqsUpTo(ClassifierPageKinds, MaxClassifierPages),
            o \in BOOLEAN, f \in 0..MaxClassifierPages}

(***************************************************************************)
(* process_document, step by step                                          *)
(***************************************************************************)
\* no call of _parse_table_row, _consolidate_data or _infer_unit_type under way
IdleRow == line = <<>> /\ record = None
IdleConsolidate == data_points = <<>> /\ consolidated = <<>>
IdleInfer == data = EmptyDict /\ unit_type = <<>>
Idle == IdleRow /\ IdleConsolidate /\ IdleInfer

\* the keys of self.patterns, compiled once by FinancialDataExtractor.__init__
PatternKeys ==
    {"unit_number", "unit_type", "rent_amount", "square_feet", "date", "tenant_name",
     "occupancy_status", "lease_status"}

\* no call of create_unit_records, extract_summary_statistics or _split_text under
\* way, and the parser constructed with no run on it
IdleBuilder == unit_records = <<>>
IdleSummary == summary = EmptyDict
IdleExtractor == compiled_patterns = PatternKeys /\ runs = <<>>
\* "chunk_size: int = 1000, overlap: int = 200"
default_chunk_size == 1000
default_overlap == 200
IdleSplit ==
    /\ long_text = <<>> /\ start = 0 /\ chunks = <<>>
    /\ chunk_size = default_chunk_size /\ overlap = default_overlap
IdleLine == line_data = None
\* no upload under way
IdleUpload ==
    /\ temp_file = "none"
    /\ temp_path = FALSE
    /\ caught = "none"
    /\ status_code = 0
    /\ detail = "none"
    /\ background_tasks = "none"
    /\ outcome = "none"
IdleOther == IdleBuilder /\ IdleSummary /\ IdleExtractor /\ IdleSplit /\ IdleLine /\ IdleUpload

InitWith(docs) ==
    /\ doc \in docs
    /\ tesseract \in BOOLEAN
    /\ pc = "check_exists"
    /\ is_readable = FALSE
    /\ text = <<>>
    /\ raised = "none"
    /\ calls = <<>>
    /\ structured_data = <<>>
    /\ validated_data = <<>>
    /\ Idle /\ IdleOther

Init == InitWith(Docs)

Raise(exception) ==
    /\ raised' = exception
    /\ pc' = "raised"

\* "if not Path(pdf_path).exists(): raise FileNotFoundError"
CheckExists ==
    /\ pc = "check_exists"
    /\ IF ~doc.exists THEN Raise("FileNotFoundError")
       ELSE pc' = "classify" /\ UNCHANGED raised
    /\ UNCHANGED <<doc, tesseract, is_readable, text, calls, structured_data,
                   validated_data, rowVars, consolidateVars, inferVars, otherVars>>

\* "is_readable = self.is_machine_readable(pdf_path)"
Classify ==
    /\ pc = "classify"
    /\ is_readable' = is_machine_readable(doc)
    /\ calls' = Append(calls, "is_machine_readable")
    /\ pc' = IF is_readable' THEN "pdfplumber" ELSE "check_tesseract"
    /\ UNCHANGED <<doc, tesseract, text, raised, structured_data, validated_data,
                   rowVars, consolidateVars, inferVars, otherVars>>

\* the same call with its result never tested: PyMuPDF always follows
ExtractPdfplumber_alwaysFallsBack ==
    /\ pc = "pdfplumber"
    /\ text' = extract_text_pdfplumber(doc)
    /\ calls' = Append(calls, "extract_text_pdfplumber")
    /\ pc' = "pymupdf"
    /\ UNCHANGED <<doc, tesseract, is_readable, raised, structured_data, validated_data,
                   rowVars, consolidateVars, inferVars, otherVars>>

\* "text = self.extract_text_pdfplumber(pdf_path)" and the test that follows it
ExtractPdfplumber ==
    /\ pc = "pdfplumber"
    /\ text' = extract_text_pdfplumber(doc)
    /\ calls' = Append(calls, "extract_text_pdfplumber")
    /\ pc' = IF IsBlank(text') THEN "pymupdf" ELSE "check_text"
    /\ UNCHANGED <<doc, tesseract, is_readable, raised, structured_data, validated_data,
                   rowVars, consolidateVars, inferVars, otherVars>>

\* "text = self.extract_text_pymupdf(pdf_path)"
ExtractPymupdf ==
    /\ pc = "pymupdf"
    /\ text' = extract_text_pymupdf(doc)
    /\ calls' = Append(calls, "extract_text_pymupdf")
    /\ pc' = "check_text"
    /\ UNCHANGED <<doc, tesseract, is_readable, raised, structured_data, validated_data,
                   rowVars, consolidateVars, inferVars, otherVars>>

\* the availability check with its result ignored
CheckTesseract_skipped ==
    /\ pc = "check_tesseract"
    /\ calls' = Append(calls, "is_tesseract_available")
    /\ pc' = "ocr"
    /\ UNCHANGED <<doc, tesseract, is_readable, text, raised, structured_data,
                   validated_data, rowVars, consolidateVars, inferVars, otherVars>>

\* "if not self.ocr_processor.is_tesseract_available(): raise RuntimeError"
CheckTesseract ==
    /\ pc = "check_tesseract"
    /\ calls' = Append(calls, "is_tesseract_available")
    /\ IF ~tesseract THEN Raise("RuntimeError")
       ELSE pc' = "ocr" /\ UNCHANGED raised
    /\ UNCHANGED <<doc, tesseract, is_readable, text, structured_data, validated_data,
                   rowVars, consolidateVars, inferVars, otherVars>>

\* "text = self.ocr_processor.extract_text_from_pdf(pdf_path)"
Ocr ==
    /\ pc = "ocr"
    /\ text' = extract_text_from_pdf(doc)
    /\ calls' = Append(calls, "extract_text_from_pdf")
    /\ pc' = "check_text"
    /\ UNCHANGED <<doc, tesseract, is_readable, raised, structured_data, validated_data,
                   rowVars, consolidateVars, inferVars, otherVars>>

\* the text check letting every text through
CheckText_neverRaises ==
    /\ pc = "check_text"
    /\ pc' = "extract"
    /\ UNCHANGED <<doc, tesseract, is_readable, text, raised, calls, structured_data,
                   validated_data, rowVars, consolidateVars, inferVars, otherVars>>

\* "if not text.strip(): raise ValueError"
CheckText ==
    /\ pc = "check_text"
    /\ IF IsBlank(text) THEN Raise("ValueError")
       ELSE pc' = "extract" /\ UNCHANGED raised
    /\ UNCHANGED <<doc, tesseract, is_readable, text, calls, structured_data,
                   validated_data, rowVars, consolidateVars, inferVars, otherVars>>

\* "structured_data = self.data_extractor.extract_structured_data(text)"
ExtractData ==
    /\ pc = "extract"
    /\ structured_data' = extract_structured_data(text)
    /\ calls' = Append(calls, "extract_structured_data")
    /\ pc' = "validate"
    /\ UNCHANGED <<doc, tesseract, is_readable, text, raised, validated_data,
                   rowVars, consolidateVars, inferVars, otherVars>>

\* validate_extracted_data rewrites the dicts of its argument in place
ValidatedInPlace(records) ==
    [i \in 1..Len(records) |->
        IF Truthy(Get(records[i], "unit_number")) THEN ValidateRecord(records[i])
        ELSE records[i]]

\* "validated_data = self.data_extractor.validate_extracted_data(structured_data)"
\* and "return text, validated_data"
Validate ==
    /\ pc = "validate"
    /\ validated_data' = validate_extracted_data(structured_data)
    /\ structured_data' = ValidatedInPlace(structured_data)
    /\ calls' = Append(calls, "validate_extracted_data")
    /\ pc' = "returned"
    /\ UNCHANGED <<doc, tesseract, is_readable, text, raised,
                   rowVars, consolidateVars, inferVars, otherVars>>

Next ==
    \/ CheckExists
    \/ Classify
    \/ ExtractPdfplumber
    \/ ExtractPymupdf
    \/ CheckTesseract
    \/ Ocr
    \/ CheckText
    \/ ExtractData
    \/ Validate

Spec == Init /\ [][Next]_vars

\* process_document on the classifier's documents
InitClassifier == InitWith(ClassifierDocs)
SpecClassifier == InitClassifier /\ [][Next]_vars

(***************************************************************************)
(* _parse_table_row, _consolidate_data and _infer_unit_type on their own   *)
(***************************************************************************)
\* no document under way
IdlePipeline ==
    /\ doc = MissingFile
    /\ tesseract = FALSE
    /\ is_readable = FALSE
    /\ text = <<>>
    /\ raised = "none"
    /\ calls = <<>>
    /\ structured_data = <<>>
    /\ validated_data = <<>>

sp == <<" ">>
RowUnits == {<<"0","1","-","1","0","1">>, <<"0","2","-","1","0","5">>, <<"7">>}
RowTypes == {<<>>, <<"M","B","L","2","A","C","6","0"," ">>}
RowMoney == {<<>>, <<"$","5","0",".","0","0"," ">>, <<"$","1","0","0",".","0","0"," ">>, <<"$","1","0","0",".","0","1"," ">>, <<"$","1",",","5","1","1",".","0","0"," ">>, <<"$","2",",","0","0","0"," ">>}
RowWords == {<<>>, s_Occupied, s_Vacant}
\* table rows: unit number, unit-type code, up to two amounts, occupancy word
RowLines ==
    {u \o sp \o t \o a \o b \o w : u \in RowUnits, t \in RowTypes, a \in RowMoney,
                                   b \in RowMoney, w \in RowWords}

InitRow ==
    /\ line \in RowLines
    /\ record = None
    /\ pc = "call"
    /\ IdlePipeline /\ IdleConsolidate /\ IdleInfer /\ IdleOther

\* "record = self._parse_table_row(line)"
ParseTableRow ==
    /\ pc = "call"
    /\ record' = _parse_table_row(line)
    /\ pc' = "done"
    /\ UNCHANGED <<doc, tesseract, is_readable, text, raised, calls, structured_data,
                   validated_data, line, consolidateVars, inferVars, otherVars>>

SpecRow == InitRow /\ [][ParseTableRow]_vars

u_101 == Str(<<"0","1","-","1","0","1">>)
u_105 == Str(<<"0","2","-","1","0","5">>)
t_Al == Str(<<"A", "l">>)

\* a dict of the given fields, a field left out when its value is Absent
Absent == [t |-> "absent", v |-> <<>>]
Fields(f) == [k \in {x \in DOMAIN f : f[x] # Absent} |-> f[k]]

\* field-sets of two units, with rents 0, 1500 and 1600 and a tenant or none,
\* and one field-set without unit number
Points ==
    {Fields([unit_number |-> u, rent_amount |-> r, tenant_name |-> t]) :
        u \in {u_101, u_105},
        r \in {Absent, Float(0), Float(150000), Float(160000)},
        t \in {Absent, t_Al}}
    \cup {Fields([rent_amount |-> Float(160000), status |-> Str(s_vacant)])}

MaxPoints == 3

InitConsolidate ==
    /\ data_points \in SeqsUpTo(Points, MaxPoints)
    /\ consolidated = <<>>
    /\ pc = "call"
    /\ IdlePipeline /\ IdleRow /\ IdleInfer /\ IdleOther

\* "consolidated_data = self._consolidate_data(extracted_data)"
Consolidate ==
    /\ pc = "call"
    /\ consolidated' = _consolidate_data(data_points)
    /\ pc' = "done"
    /\ UNCHANGED <<doc, tesseract, is_readable, text, raised, calls, structured_data,
                   validated_data, data_points, rowVars, inferVars, otherVars>>

SpecConsolidate == InitConsolidate /\ [][Consolidate]_vars

\* rents and areas around the brackets; a rent is a float as the extractor sets
\* it or a Decimal as validate_extracted_data leaves it
InferRents ==
    {Absent, None}
    \cup {Float(c) : c \in {0, 50000, 100000, 100001, 150000, 180000, 200000, 250000}}
    \cup {Decimal(c) : c \in {50000, 100000, 100001, 150000, 180000, 200000, 250000}}
InferAreas == {Absent, None} \cup {PyInt(n) : n \in {0, 500, 600, 800, 801, 1200, 1201}}
InferInputs ==
    {Fields([unit_number |-> u_101, unit_type |-> t, rent_amount |-> r, area_sqft |-> a]) :
        t \in {Absent, Str(s_Unknown), Str(<<>>)}, r \in InferRents, a \in InferAreas}

InitInfer ==
    /\ data \in InferInputs
    /\ unit_type = <<>>
    /\ pc = "call"
    /\ IdlePipeline /\ IdleRow /\ IdleConsolidate /\ IdleOther

\* "unit_type = self._infer_unit_type(data)"
InferUnitType ==
    /\ pc = "call"
    /\ unit_type' = _infer_unit_type(data)
    /\ pc' = "done"
    /\ UNCHANGED <<doc, tesseract, is_readable, text, raised, calls, structured_data,
                   validated_data, data, rowVars, consolidateVars, otherVars>>

SpecInfer == InitInfer /\ [][InferUnitType]_vars

(***************************************************************************)
(* create_unit_records                                                     *)
(***************************************************************************)
\* "unit_type = data.get('unit_type', 'Unknown')" and the inference that follows
\* when it is 'Unknown'
UnitTypeOf(d) ==
    IF GetOr(d, "unit_type", Str(s_Unknown)) = Str(s_Unknown) /\ Truthy(Get(d, "unit_number"))
    THEN Str(_infer_unit_type(d))
    ELSE GetOr(d, "unit_type", Str(s_Unknown))

\* UnitCreate(unit_number=..., unit_type=..., area_sqft=..., rent_amount=..., status=...)
UnitCreate(d) ==
    [unit_number |-> d.unit_number,
     unit_type |-> UnitTypeOf(d),
     area_sqft |-> Get(d, "area_sqft"),
     rent_amount |-> Get(d, "rent_amount"),
     status |-> GetOr(d, "status", Str(s_vacant))]

\* the loop of create_unit_records over structured_data[i..]
RECURSIVE UnitsLoop(_, _)
UnitsLoop(records, i) ==
    IF i > Len(records) THEN <<>>
    ELSE (IF Truthy(Get(records[i], "unit_number")) THEN <<UnitCreate(records[i])>> ELSE <<>>)
         \o UnitsLoop(records, i + 1)

create_unit_records(records) == UnitsLoop(records, 1)

MaxRecords == 2

\* validated records of unit 01-101: a unit-type code or none, a Decimal rent or
\* none, an area or none
BuilderRecords ==
    {Fields([unit_number |-> u_101, unit_type |-> t, rent_amount |-> r, area_sqft |-> a,
             status |-> Str(s_vacant)]) :
        t \in {Absent, Str(<<"M","B","L","1","A","C","3","0">>),
               Str(<<"M","B","L","2","A","C","6","0">>),
               Str(<<"M","B","L","3","A","C","2","0">>),
               Str(<<"M","B","L","3","A","C","6","0">>)},
        r \in {Absent, None, Decimal(151100), Decimal(250000)},
        a \in {Absent, PyInt(600)}}

InitBuilder ==
    /\ validated_data \in SeqsUpTo(BuilderRecords, MaxRecords)
    /\ pc = "returned"
    /\ doc = MissingFile /\ tesseract = FALSE /\ is_readable = FALSE /\ text = <<>>
    /\ raised = "none" /\ calls = <<>> /\ structured_data = <<>>
    /\ Idle /\ IdleOther

\* "unit_records = parser.create_unit_records(structured_data, property_obj.id)"
CreateUnitRecords ==
    /\ pc = "returned"
    /\ unit_records' = create_unit_records(validated_data)
    /\ pc' = "built"
    /\ UNCHANGED <<pipelineVarsButPc, rowVars, consolidateVars, inferVars,
                   summaryVars, extractorVars, splitVars,
                   lineVars,
                   uploadVars>>

SpecBuilder == InitBuilder /\ [][CreateUnitRecords]_vars

(***************************************************************************)
(* validate_extracted_data on its own                                      *)
(***************************************************************************)
t_John == Str(<<"J","o","h","n"," ","S","m","i","t","h">>)
s_abc == Str(<<"a","b","c">>)
s_na == Str(<<"n","/","a">>)

\* records given to validate_extracted_data: rents and areas inside and outside
\* the plausible ranges or not numbers at all, tenant names that pass or fail the
\* cleaning, and records without unit number
ValidateInputs ==
    {Fields([unit_number |-> u_101, rent_amount |-> r, area_sqft |-> a]) :
        r \in {Absent, Float(151100), Float(6000000), Float(-5000), s_abc},
        a \in {Absent, PyInt(600), PyInt(15000), PyInt(50), s_na}}
    \cup {Fields([unit_number |-> u_105, rent_amount |-> r, tenant_name |-> t, status |-> s]) :
            r \in {Absent, s_abc}, t \in {t_John, t_Al}, s \in {Absent, Str(s_occupied)}}
    \cup {Fields([unit_number |-> u, rent_amount |-> Float(151100)]) : u \in {Absent, Str(<<>>)}}

InitValidate ==
    /\ structured_data \in SeqsUpTo(ValidateInputs, MaxRecords)
    /\ pc = "validate"
    /\ doc = MissingFile /\ tesseract = FALSE /\ is_readable = FALSE /\ text = <<>>
    /\ raised = "none" /\ calls = <<>> /\ validated_data = <<>>
    /\ Idle /\ IdleOther

SpecValidate == InitValidate /\ [][Validate]_vars

(***************************************************************************)
(* extract_summary_statistics                                              *)
(***************************************************************************)
\* the float n / d (of hundredths where n is in hundredths), kept exact
Ratio(n, d) == [t |-> "ratio", v |-> <<n, d>>]

\* "sum(1 for record in data if record.get('status') == 'occupied')"
Occupied(records) == Len(SelectSeq(records, LAMBDA r : Get(r, "status") = Str(s_occupied)))

\* "[float(record['rent_amount']) for record in data if record.get('rent_amount')]", in hundredths
RECURSIVE rent_amounts(_, _)
rent_amounts(records, i) ==
    IF i > Len(records) THEN <<>>
    ELSE (IF Truthy(Get(records[i], "rent_amount"))
          THEN <<PyFloat(records[i].rent_amount).cents>> ELSE <<>>)
         \o rent_amounts(records, i + 1)

\* "[record['area_sqft'] for record in data if record.get('area_sqft')]"
RECURSIVE areas(_, _)
areas(records, i) ==
    IF i > Len(records) THEN <<>>
    ELSE (IF Truthy(Get(records[i], "area_sqft")) THEN <<records[i].area_sqft.v>> ELSE <<>>)
         \o areas(records, i + 1)

RECURSIVE SeqSum(_)
SeqSum(s) == IF s = <<>> THEN 0 ELSE Head(s) + SeqSum(Tail(s))

\* the summary dictionary built from the counts and the two lists
SummaryOf(total_units, occupied_units, rents, sqfts) ==
    [total_units |-> PyInt(total_units),
     occupied_units |-> PyInt(occupied_units),
     vacant_units |-> PyInt(total_units - occupied_units),
     occupancy_rate |-> IF total_units > 0 THEN Ratio(occupied_units * 100, total_units)
                        ELSE PyInt(0),
     total_rent |-> IF rents # <<>> THEN Float(SeqSum(rents)) ELSE PyInt(0),
     average_rent |-> IF rents # <<>> THEN Ratio(SeqSum(rents), Len(rents)) ELSE PyInt(0),
     total_area |-> IF sqfts # <<>> THEN PyInt(SeqSum(sqfts)) ELSE PyInt(0),
     average_area |-> IF sqfts # <<>> THEN Ratio(SeqSum(sqfts), Len(sqfts)) ELSE PyInt(0)]

extract_summary_statistics(records) ==
    IF records = <<>> THEN EmptyDict
    ELSE SummaryOf(Len(records), Occupied(records), rent_amounts(records, 1), areas(records, 1))

\* validated records: every status _parse_table_row and validate_extracted_data set
SummaryRecords ==
    {Fields([unit_number |-> u_101, rent_amount |-> r, area_sqft |-> a, status |-> Str(s)]) :
        r \in {Absent, None, Decimal(151100), Decimal(130600)},
        a \in {Absent, PyInt(600)},
        s \in {s_occupied, s_vacant, s_unknown}}

InitSummary ==
    /\ validated_data \in SeqsUpTo(SummaryRecords, MaxRecords)
    /\ pc = "summarize"
    /\ doc = MissingFile /\ tesseract = FALSE /\ is_readable = FALSE /\ text = <<>>
    /\ raised = "none" /\ calls = <<>> /\ structured_data = <<>>
    /\ Idle /\ IdleOther

Summarize ==
    /\ pc = "summarize"
    /\ summary' = extract_summary_statistics(validated_data)
    /\ pc' = "summarized"
    /\ UNCHANGED <<pipelineVarsButPc, rowVars, consolidateVars, inferVars,
                   builderVars, extractorVars, splitVars,
                   lineVars,
                   uploadVars>>

SpecSummary == InitSummary /\ [][Summarize]_vars

(***************************************************************************)
(* process_document on a rent roll of one data line                        *)
(***************************************************************************)
l_vacant == <<"0","2","-","1","0","5"," "," ","M","B","L","3","A","C","6","0"," "," ","$","1",",","3","0","6",".","0","0"," "," ","V","a","c","a","n","t">>
u_02105 == Str(<<"0","2","-","1","0","5">>)
t_MBL3AC60 == Str(<<"M","B","L","3","A","C","6","0">>)

\* a text page whose only line is the row of the vacant unit 02-105
PgVacant == Page(l_vacant \o NL, l_vacant, <<>>, FALSE, Recognized(l_vacant), Recognized(l_vacant))

EndToEndDocs ==
    {d \in FilesOver({PgVacant, PgBlank, PgScanA}, MaxPages) : d.fitzFailAt <= Len(d.pages)}

InitEndToEnd == InitWith(EndToEndDocs)
SpecEndToEnd == InitEndToEnd /\ [][Next]_vars

(***************************************************************************)
(* Runs of extract_structured_data on the shared FinancialDataExtractor    *)
(***************************************************************************)
l_names == <<"S","m","i","t","h",","," ","J","o","h","n"," ","V","a","c","a","n","t">>

l_due == <<"T","o","t","a","l"," ","r","e","n","t"," ","d","u","e",":"," ","$"," ","T","B","D",","," ","O","c","c","u","p","i","e","d">>
l_area == <<"A","r","e","a"," ","i","n"," ","s","q"," ","f","t",":"," ","n","/","a"," ","-"," ","A","v","a","i","l","a","b","l","e">>

\* texts handed to extract_structured_data: with and without table rows
RunTexts ==
    {PageMarker(1) \o NL \o l_rowA \o NL,
     l_title \o NL \o l_rowB,
     l_vacant,
     l_title,
     l_title \o NL \o l_names,
     l_due,
     l_area \o NL \o l_due}

MaxRuns == 2

\* "self.data_extractor = FinancialDataExtractor()" at startup: the compiled
\* patterns are built, no call is under way
InitExtractor ==
    /\ compiled_patterns = PatternKeys
    /\ runs = <<>>
    /\ pc = "serving"
    /\ IdlePipeline /\ Idle /\ IdleBuilder /\ IdleSummary /\ IdleSplit /\ IdleLine /\ IdleUpload

RunStep(i, run) ==
    /\ runs' = [runs EXCEPT ![i] = run]
    /\ UNCHANGED <<pc, pipelineVarsButPc, rowVars, consolidateVars, inferVars,
                   builderVars, summaryVars, splitVars,
                   lineVars,
                   uploadVars>>

\* a request calls extract_structured_data(txt)
CallExtract(txt) ==
    /\ Len(runs) < MaxRuns
    /\ runs' = Append(runs, [text |-> txt, pc |-> "table", result |-> <<>>])
    /\ UNCHANGED <<compiled_patterns, pc, pipelineVarsButPc, rowVars, consolidateVars,
                   inferVars, builderVars, summaryVars, splitVars,
                   lineVars,
                   uploadVars>>

\* "if table_data: return table_data", else on to the line loop;
\* self.compiled_patterns[key] raises KeyError for a key that is not there
TableStep(run, table_data) ==
    IF ~({"unit_number", "rent_amount"} \subseteq compiled_patterns)
    THEN [run EXCEPT !.pc = "raised"]
    ELSE IF Len(table_data) > 0 THEN [run EXCEPT !.pc = "returned", !.result = table_data]
    ELSE [run EXCEPT !.pc = "fallback"]

\* the same step consuming the unit_number pattern it used
ExtractTable_consumesPattern(i) ==
    /\ i \in 1..Len(runs) /\ runs[i].pc = "table"
    /\ RunStep(i, TableStep(runs[i], _extract_table_data(runs[i].text)))
    /\ compiled_patterns' = compiled_patterns \ {"unit_number"}

\* the same step going on to the line loop whatever the table strategy found
ExtractTable_runsBoth(i) ==
    /\ i \in 1..Len(runs) /\ runs[i].pc = "table"
    /\ RunStep(i, [runs[i] EXCEPT !.pc = "fallback"])
    /\ UNCHANGED compiled_patterns

\* "table_data = self._extract_table_data(text)" of run i
ExtractTable(i) ==
    /\ i \in 1..Len(runs) /\ runs[i].pc = "table"
    /\ RunStep(i, TableStep(runs[i], _extract_table_data(runs[i].text)))
    /\ UNCHANGED compiled_patterns

FallbackStep(run, points) ==
    IF ~({"unit_number", "rent_amount", "square_feet", "date", "tenant_name"}
            \subseteq compiled_patterns)
    THEN [run EXCEPT !.pc = "raised"]
    ELSE [run EXCEPT !.pc = "returned", !.result = _consolidate_data(points)]

\* the line loop and "return consolidated_data" of run i
ExtractFallback(i) ==
    /\ i \in 1..Len(runs) /\ runs[i].pc = "fallback"
    /\ RunStep(i, FallbackStep(runs[i], FallbackLoop(SplitLines(runs[i].text), 1)))
    /\ UNCHANGED compiled_patterns

NextExtractor ==
    \/ \E txt \in RunTexts : CallExtract(txt)
    \/ \E i \in 1..MaxRuns : ExtractTable(i)
    \/ \E i \in 1..MaxRuns : ExtractFallback(i)

SpecExtractor == InitExtractor /\ [][NextExtractor]_vars

(***************************************************************************)
(* _split_text                                                             *)
(***************************************************************************)
\* A long text by what _split_text looks at: its length and the (0-based)
\* positions of its '.' and of its whitespace.
LongText(len, periods, spaces) ==
    [len |-> len,
     periods |-> {p \in periods : p < len},
     spaces |-> {p \in spaces : p < len /\ p \notin periods}]

SplitTexts ==
    {LongText(len, periods, spaces) :
        len \in {0, 1, 700, 800, 801, 900, 1000, 1001, 1200, 1702, 1800, 2000, 2600},
        periods \in {{}, {700}, {701}, {650, 850}, {999, 1100}, {701, 1300, 1400}, {850, 1500}},
        spaces \in {{}, {0, 800, 999}}}

\* a slice index as Python reads it: counted from the end when negative, and
\* brought into 0..len(text)
SliceIndex(txt, i) ==
    IF i < 0 THEN (IF i + txt.len < 0 THEN 0 ELSE i + txt.len)
    ELSE IF i < txt.len THEN i ELSE txt.len

\* text[a:b] as the slice [from, to) of the text, empty when b is not beyond a
Slice(txt, a, b) ==
    [from |-> SliceIndex(txt, a),
     to |-> IF SliceIndex(txt, b) < SliceIndex(txt, a) THEN SliceIndex(txt, a)
            ELSE SliceIndex(txt, b)]

\* chunk.rfind('.') for chunk = text[a:b]: index in the chunk, -1 when none
rfind_period(txt, a, b) ==
    LET s == Slice(txt, a, b) IN
    IF \E p \in txt.periods : s.from <= p /\ p < s.to
    THEN SetMax({p \in txt.periods : s.from <= p /\ p < s.to}) - s.from
    ELSE -1

\* "if end < len(text): ... if last_period > chunk_size * 0.7: end = start + last_period + 1"
ChunkEnd(txt, a, end, last_period) ==
    IF end < txt.len /\ 10 * last_period > 7 * chunk_size THEN a + last_period + 1 ELSE end

\* chunk.strip() of the slice [from, to): the slice without the whitespace at its ends
StripSlice(txt, s) ==
    IF \A p \in s.from..(s.to - 1) : p \in txt.spaces THEN [from |-> s.from, to |-> s.from]
    ELSE [from |-> SetMin({p \in s.from..(s.to - 1) : p \notin txt.spaces}),
          to |-> SetMax({p \in s.from..(s.to - 1) : p \notin txt.spaces}) + 1]

\* what one iteration appends: the window text[start:end] and its stripped chunk
Chunk(txt, a, end) ==
    [window |-> Slice(txt, a, end), chunk |-> StripSlice(txt, Slice(txt, a, end))]

InitSplit ==
    /\ long_text \in SplitTexts
    /\ start = 0
    /\ chunks = <<>>
    /\ chunk_size = default_chunk_size
    /\ overlap = default_overlap
    /\ pc = "split"
    /\ IdlePipeline /\ Idle /\ IdleBuilder /\ IdleSummary /\ IdleExtractor /\ IdleLine /\ IdleUpload

SplitEnd(txt, a) == ChunkEnd(txt, a, a + chunk_size, rfind_period(txt, a, a + chunk_size))

\* iterations of the loop that are followed
MaxChunks == 8

\* one iteration of "while start < len(text)", with its break
SplitStep ==
    /\ pc = "split"
    /\ start < long_text.len
    /\ Len(chunks) < MaxChunks
    /\ chunks' = Append(chunks, Chunk(long_text, start, SplitEnd(long_text, start)))
    /\ start' = SplitEnd(long_text, start) - overlap
    /\ pc' = IF start' >= long_text.len THEN "split_done" ELSE "split"
    /\ UNCHANGED <<long_text, chunk_size, overlap, pipelineVarsButPc, rowVars,
                   consolidateVars, inferVars, builderVars, summaryVars, extractorVars,
                   lineVars, uploadVars>>

\* the loop is not entered: "return chunks"
SplitReturn ==
    /\ pc = "split"
    /\ start >= long_text.len
    /\ pc' = "split_done"
    /\ UNCHANGED <<long_text, start, chunks, chunk_size, overlap, pipelineVarsButPc,
                   rowVars, consolidateVars, inferVars, builderVars, summaryVars,
                   extractorVars, lineVars, uploadVars>>

NextSplit == SplitStep \/ SplitReturn

SpecSplit == InitSplit /\ [][NextSplit]_vars

\* _split_text called with its parameters given: every chunk_size up to
\* MaxChunkSize with every overlap below it, on texts of up to 25 characters
MaxChunkSize == 10

ShortTexts ==
    {LongText(len, periods, {}) :
        len \in {0, 5, 12, 25}, periods \in {{}, {8}, {8, 17}, {3, 9, 20}}}

InitSplitParams ==
    /\ long_text \in ShortTexts
    /\ start = 0
    /\ chunks = <<>>
    /\ chunk_size \in 1..MaxChunkSize
    /\ overlap \in 0..(chunk_size - 1)
    /\ pc = "split"
    /\ IdlePipeline /\ Idle /\ IdleBuilder /\ IdleSummary /\ IdleExtractor /\ IdleLine /\ IdleUpload

SpecSplitParams == InitSplitParams /\ [][NextSplit]_vars

(***************************************************************************)
(* _parse_table_row and _extract_from_line on the lines each is given      *)
(***************************************************************************)
p_row == <<"0","1","-","1","0","1"," ","$","1",",","5","0","0",".","0","0"," ">>
p_note == <<"B","u","i","l","d","i","n","g",":"," ">>
p_unit == <<"0","1","-","1","0","1"," ">>
p_code == <<"M","B","L","2","A","C","6","0"," ">>
p_rent == <<"$","1",",","5","0","0",".","0","0"," ">>
n_John == <<"J","o","h","n"," ","S","m","i","t","h"," ">>
n_JOHN == <<"J","O","H","N"," ","S","M","I","T","H"," ">>
n_Manager == <<"U","n","i","t"," ","M","a","n","a","g","e","r"," ">>
n_Smith == <<"S","m","i","t","h",","," ","J","o","h","n"," ">>
d_Jan == <<"0","1","/","1","5","/","2","0","2","4"," ">>
d_Dec == <<"1","2","/","3","1","/","2","4"," ">>
d_bad == <<"1","3","/","4","5","/","2","0","2","4"," ">>
d_old == <<"0","6","/","3","0","/","1","9","9","9"," ">>

StatusWords ==
    {<<>>, s_Vacant, s_Available, s_Occupied, s_Rented, s_vacant,
     <<"O","C","C","U","P","I","E","D">>, <<"U","n","r","e","n","t","e","d">>}

\* lines with two status words: table rows and lines without any digit
StatusLines ==
    {Strip(p \o a \o sp \o b) : p \in {p_row, p_note}, a \in StatusWords, b \in StatusWords}

\* table rows with a unit-type code or none, a name or none, a rent and a status word
TenantLines ==
    {Strip(p_unit \o c \o n \o p_rent \o w) :
        c \in {<<>>, p_code},
        n \in {<<>>, n_John, n_JOHN, n_Manager, n_Smith},
        w \in {<<>>, s_Occupied, s_Rented, s_Vacant}}

RowDates == {d_Jan, d_Dec, d_bad, d_old}
MaxDates == 3

\* table rows with up to MaxDates dates, valid or not
DateLines ==
    {Strip(p_row \o Join(ds, <<>>)) : ds \in SeqsUpTo(RowDates, MaxDates)}

LineInputs == StatusLines \cup TenantLines \cup DateLines

\* a line passing the table-row test goes to _parse_table_row; _extract_from_line
\* is given the lines of at least 10 characters of a text in which no line passes
InitLine ==
    /\ line \in LineInputs
    /\ record = None
    /\ line_data = None
    /\ pc = IF IsTableRow(line) THEN "call" ELSE "fallback_call"
    /\ IdlePipeline /\ IdleConsolidate /\ IdleInfer
    /\ IdleBuilder /\ IdleSummary /\ IdleExtractor /\ IdleSplit /\ IdleUpload

\* "data_point = self._extract_from_line(line)"
ExtractFromLine ==
    /\ pc = "fallback_call"
    /\ Len(line) >= 10
    /\ line_data' = _extract_from_line(line)
    /\ pc' = "extracted"
    /\ UNCHANGED <<pipelineVarsButPc, rowVars, consolidateVars, inferVars,
                   builderVars, summaryVars, extractorVars, splitVars,
                   uploadVars>>

NextLine == ParseTableRow \/ ExtractFromLine

SpecLine == InitLine /\ [][NextLine]_vars

(***************************************************************************)
(* Tenant-name cleaning and status default of validate_extracted_data      *)
(***************************************************************************)
NameHeads == {<<>>, <<"B">>, <<"J","o">>, <<"r","e">>, <<"t","o">>}
NameMiddles ==
    {<<>>, <<"r","e","n","t">>, <<"t","o","t","a","l">>, <<"u","n","i","t">>, <<"$">>, <<",">>, <<" ">>, <<"h","n">>}
NameTails == {<<>>, <<"n","t">>, <<" ","B">>, <<" ","S","m","i","t","h">>, <<"t","a","l">>}

\* tenant names with artifacts inside, around and formed by what surrounds them
TenantNames == {h \o m \o t : h \in NameHeads, m \in NameMiddles, t \in NameTails}

\* records of one unit, with a tenant name and a status or none, and records
\* without unit number
CleanRecords ==
    {Fields([unit_number |-> u, tenant_name |-> t, status |-> s]) :
        u \in {u_101},
        t \in {Absent, None} \cup {Str(n) : n \in TenantNames},
        s \in {Absent, Str(s_vacant), Str(s_occupied), Str(s_unknown)}}
    \cup {Fields([unit_number |-> u, tenant_name |-> t_John]) : u \in {Absent, Str(<<>>)}}

InitClean ==
    /\ structured_data \in {<<r>> : r \in CleanRecords}
    /\ pc = "validate"
    /\ doc = MissingFile /\ tesseract = FALSE /\ is_readable = FALSE /\ text = <<>>
    /\ raised = "none" /\ calls = <<>> /\ validated_data = <<>>
    /\ Idle /\ IdleOther

SpecClean == InitClean /\ [][Validate]_vars

(***************************************************************************)
(* process_document followed by create_unit_records, as the background     *)
(* task runs them                                                          *)
(***************************************************************************)
NextBuilder == Next \/ CreateUnitRecords

SpecPipelineBuilder == Init /\ [][NextBuilder]_vars

(***************************************************************************)
(* upload_document and process_document_background of main.py: the upload  *)
(* is written to a temporary file, validated, and processed by a           *)
(* background task that runs after the response is sent                    *)
(***************************************************************************)
\* "if not Path(pdf_path).exists(): return False", then fitz.open and
\* "return page_count > 0"; any exception gives False
validate_pdf_file(d) == d.exists /\ d.fitzOpens /\ Len(d.pages) > 0

\* the uploaded bytes, as the file they make once written
UploadDocs == {d \in Docs : d.exists}

InitUpload ==
    /\ doc \in UploadDocs
    /\ tesseract \in BOOLEAN
    /\ pc = "upload"
    /\ is_readable = FALSE
    /\ text = <<>>
    /\ raised = "none"
    /\ calls = <<>>
    /\ structured_data = <<>>
    /\ validated_data = <<>>
    /\ Idle /\ IdleOther

\* "raise HTTPException(status_code=..., detail=...)" leaving the handler
Respond(code, message) ==
    /\ status_code' = code
    /\ detail' = message
    /\ pc' = "responded"

\* the file type and size tests, then "with tempfile.NamedTemporaryFile(
\* delete=False, suffix=".pdf") as temp_file" inside the try
UploadDocument ==
    /\ pc = "upload"
    /\ \E pdf_name \in BOOLEAN, size_ok \in BOOLEAN, created \in BOOLEAN :
          IF ~pdf_name
          THEN Respond(400, "Only PDF files are supported") /\ UNCHANGED <<temp_file, caught>>
          ELSE IF ~size_ok
          THEN Respond(400, "File size exceeds limit") /\ UNCHANGED <<temp_file, caught>>
          ELSE IF ~created
          THEN /\ caught' = "OSError"
               /\ pc' = "upload_except"
               /\ UNCHANGED <<temp_file, status_code, detail>>
          ELSE /\ temp_file' = "exists"
               /\ pc' = "upload_write"
               /\ UNCHANGED <<caught, status_code, detail>>
    /\ UNCHANGED <<temp_path, background_tasks, outcome, pipelineVarsButPc, rowVars,
                   consolidateVars, inferVars, builderVars, summaryVars, extractorVars,
                   splitVars, lineVars>>

\* "content = await file.read()", "temp_file.write(content)" and
\* "temp_path = temp_file.name": the name is bound only once both have succeeded
UploadWrite ==
    /\ pc = "upload_write"
    /\ \E written \in BOOLEAN :
          IF written
          THEN temp_path' = TRUE /\ pc' = "upload_validate" /\ UNCHANGED caught
          ELSE caught' = "OSError" /\ pc' = "upload_except" /\ UNCHANGED temp_path
    /\ UNCHANGED <<temp_file, status_code, detail, background_tasks, outcome,
                   pipelineVarsButPc, rowVars, consolidateVars, inferVars, builderVars,
                   summaryVars, extractorVars, splitVars, lineVars>>

\* "if not parser.validate_pdf_file(temp_path): os.unlink(temp_path); raise
\* HTTPException(status_code=400, detail="Invalid PDF file")", raised inside the
\* try; otherwise "background_tasks.add_task(...)" and the response is returned
UploadValidate ==
    /\ pc = "upload_validate"
    /\ IF ~validate_pdf_file(doc)
       THEN /\ temp_file' = "deleted"
            /\ caught' = "HTTPException"
            /\ pc' = "upload_except"
            /\ UNCHANGED <<status_code, detail, background_tasks>>
       ELSE /\ background_tasks' = "scheduled"
            /\ Respond(200, "none")
            /\ UNCHANGED <<temp_file, caught>>
    /\ UNCHANGED <<temp_path, outcome, pipelineVarsButPc, rowVars, consolidateVars,
                   inferVars, builderVars, summaryVars, extractorVars, splitVars, lineVars>>

\* "except Exception as e: if 'temp_path' in locals() and os.path.exists(temp_path):
\* os.unlink(temp_path)", then "raise HTTPException(status_code=500, ...)"
UploadExcept ==
    /\ pc = "upload_except"
    /\ temp_file' = IF temp_path /\ temp_file = "exists" THEN "deleted" ELSE temp_file
    /\ Respond(500, "Error processing document upload")
    /\ UNCHANGED <<temp_path, caught, background_tasks, outcome, pipelineVarsButPc,
                   rowVars, consolidateVars, inferVars, builderVars, summaryVars,
                   extractorVars, splitVars, lineVars>>

\* the task starts once the response is sent:
\* "text, structured_data = parser.process_document(temp_path)"
RunBackgroundTask ==
    /\ pc = "responded"
    /\ background_tasks = "scheduled"
    /\ background_tasks' = "running"
    /\ pc' = "check_exists"
    /\ UNCHANGED <<temp_file, temp_path, caught, status_code, detail, outcome,
                   pipelineVarsButPc, rowVars, consolidateVars, inferVars, builderVars,
                   summaryVars, extractorVars, splitVars, lineVars>>

\* the rest of process_document_background: "if not structured_data: return",
\* the storage calls, any of which may raise, "except Exception as e:
\* logger.error(...)" and "finally: if os.path.exists(temp_path): os.unlink(temp_path)"
FinishBackgroundTask ==
    /\ background_tasks = "running"
    /\ pc \in {"returned", "raised"}
    /\ \E stored \in BOOLEAN :
          outcome' = IF pc = "raised" THEN "error"
                     ELSE IF validated_data = <<>> THEN "no_data"
                     ELSE IF stored THEN "stored" ELSE "error"
    /\ temp_file' = IF temp_file = "exists" THEN "deleted" ELSE temp_file
    /\ background_tasks' = "done"
    /\ pc' = "task_done"
    /\ UNCHANGED <<temp_path, caught, status_code, detail, pipelineVarsButPc, rowVars,
                   consolidateVars, inferVars, builderVars, summaryVars, extractorVars,
                   splitVars, lineVars>>

NextUpload ==
    \/ UploadDocument
    \/ UploadWrite
    \/ UploadValidate
    \/ UploadExcept
    \/ RunBackgroundTask
    \/ Next
    \/ FinishBackgroundTask

SpecUpload == InitUpload /\ [][NextUpload]_vars

(***************************************************************************)
(* Properties                                                              *)
(***************************************************************************)
Terminal == pc \in {"returned", "raised"}
Called(f) == \E i \in 1..Len(calls) : calls[i] = f
HasInk(s) == \E i \in 1..Len(s) : s[i] \notin Whitespace

\* C1: for every PDF that opens with zero pages, the classifier answers False and
\* process_document ends by raising the invalid-document condition, not the
\* OCR-unavailable (RuntimeError) or the no-text (ValueError) one.
C1_ZeroPagesRaiseInvalidDocument ==
    (doc.exists /\ doc.fitzOpens /\ Len(doc.pages) = 0 /\ Terminal)
        => (~is_readable /\ pc = "raised" /\ raised = "InvalidDocument")

\* C2: process_document returns (and extracts, and validates) only a text with a
\* character that is no whitespace; when the recovered text has none it raises
\* ValueError and has called neither extract_structured_data nor
\* validate_extracted_data.
C2_NoBlankTextReturned ==
    /\ pc \in {"extract", "validate", "returned"} => HasInk(text)
    /\ (Terminal /\ Called("is_machine_readable") /\ raised # "RuntimeError" /\ ~HasInk(text))
           => (pc = "raised" /\ raised = "ValueError")
    /\ raised = "ValueError"
           => /\ ~HasInk(text)
              /\ ~Called("extract_structured_data")
              /\ ~Called("validate_extracted_data")
              /\ structured_data = <<>> /\ validated_data = <<>>

\* a document classified machine-readable whose two direct extractors both gave
\* no text has ended with ValueError
C2_Witness ==
    /\ pc = "raised" /\ raised = "ValueError"
    /\ is_readable
    /\ Called("extract_text_pdfplumber") /\ Called("extract_text_pymupdf")

\* the failure kind of the document under process_document
FailureKind ==
    IF ~doc.exists THEN "not_found"
    ELSE IF ~doc.fitzOpens \/ Len(doc.pages) = 0 THEN "invalid"
    ELSE IF ~is_readable /\ ~tesseract THEN "ocr_unavailable"
    ELSE IF ~HasInk(text) THEN "no_text"
    ELSE "none"

\* C3: not found, invalid or corrupt PDF, OCR unavailable and no text each end
\* process_document with a condition of their own: FileNotFoundError, RuntimeError
\* and ValueError stand for the first, third and fourth kind and for nothing else,
\* and an invalid or corrupt PDF ends with a further condition.
C3_FourDistinctConditions ==
    Terminal =>
        CASE FailureKind = "not_found" -> raised = "FileNotFoundError"
          [] FailureKind = "invalid" ->
                pc = "raised" /\ raised \notin {"FileNotFoundError", "RuntimeError", "ValueError"}
          [] FailureKind = "ocr_unavailable" -> raised = "RuntimeError"
          [] FailureKind = "no_text" -> raised = "ValueError"
          [] OTHER -> raised = "none"

\* the stripped length of a text: from its first to its last non-whitespace character
InkSpan(s) ==
    LET ink == {i \in 1..Len(s) : s[i] \notin Whitespace}
    IN  IF ink = {} THEN 0 ELSE SetMax(ink) - SetMin(ink) + 1

RECURSIVE InkOfFirst(_, _)
InkOfFirst(pages, n) ==
    IF n = 0 THEN 0 ELSE InkOfFirst(pages, n - 1) + InkSpan(pages[n].native)

\* C4: is_machine_readable raises nothing and answers True exactly when the
\* document opens, has a page, no read of its first min(3, n) pages fails, and the
\* stripped lengths of those pages sum to more than 20; no later page counts.
C4_ReadableIffFirstPagesExceedThreshold ==
    Called("is_machine_readable") =>
        /\ raised \in {"none", "RuntimeError", "ValueError"}
        /\ pc # "classify"
        /\ is_readable <=>
              /\ doc.fitzOpens
              /\ Len(doc.pages) >= 1
              /\ doc.fitzFailAt \notin 1..Min2(3, Len(doc.pages))
              /\ InkOfFirst(doc.pages, Min2(3, Len(doc.pages))) > 20

\* a four-page document with 10 characters on its first three pages and a long
\* fourth page is classified not machine-readable
C4_Witness ==
    /\ Called("is_machine_readable")
    /\ doc.fitzOpens /\ doc.fitzFailAt = 0
    /\ Len(doc.pages) = 4
    /\ doc.pages[1] = PgTen /\ doc.pages[4] = PgTitle
    /\ ~is_readable

\* C5: process_document ends with RuntimeError exactly when the document was
\* classified not machine-readable and Tesseract is unavailable; then
\* extract_text_from_pdf was never called; and for a document classified
\* machine-readable neither the availability check nor OCR is ever called.
C5_OcrUnavailableExactlyWhenNeeded ==
    /\ Terminal => (raised = "RuntimeError"
                       <=> (Called("is_machine_readable") /\ ~is_readable /\ ~tesseract))
    /\ raised = "RuntimeError" => ~Called("extract_text_from_pdf")
    /\ is_readable => (~Called("is_tesseract_available") /\ ~Called("extract_text_from_pdf")
                       /\ raised # "RuntimeError")

\* a scanned document with pages has ended with RuntimeError
C5_Witness ==
    /\ pc = "raised" /\ raised = "RuntimeError"
    /\ doc.fitzOpens /\ Len(doc.pages) > 0

\* what recognition gives for a page: of the original image when preprocessing
\* fails, nothing when recognition raises
PageOcrText(p) ==
    LET r == IF p.preFails THEN p.ocrOrig ELSE p.ocrPre
    IN  IF r.raises THEN <<>> ELSE SubSeq(r.out, SetMin({i \in 1..Len(r.out) : r.out[i] \notin Whitespace} \cup {Len(r.out) + 1}),
                                          SetMax({i \in 1..Len(r.out) : r.out[i] \notin Whitespace} \cup {0}))

\* the pages of S in order, each under the marker of its own position
RECURSIVE PagesUnderMarkers(_, _)
PagesUnderMarkers(pages, S) ==
    IF S = {} THEN <<>>
    ELSE (IF S = {SetMax(S)} THEN <<>>
          ELSE PagesUnderMarkers(pages, S \ {SetMax(S)}) \o NLNL)
         \o PageMarker(SetMax(S)) \o NL \o PageOcrText(pages[SetMax(S)])

\* C6: when the pages rasterize, the OCR text is the concatenation, in order, of
\* the pages whose recognition gave text, each headed by "--- Page N ---" with N
\* its position in the document; a page whose preprocessing fails is recognized
\* from the original image and a page whose recognition fails or is empty is left out.
C6_OcrKeepsPageNumbers ==
    (Called("extract_text_from_pdf") /\ ~doc.popplerFails) =>
        text = PagesUnderMarkers(doc.pages,
                                 {i \in 1..Len(doc.pages) : PageOcrText(doc.pages[i]) # <<>>})

\* recognition fails on page 1, preprocessing fails on page 2: the text is page 2
\* alone, numbered 2
C6_Witness ==
    /\ Called("extract_text_from_pdf")
    /\ doc.pages = <<PgScanBad, PgScanB>>
    /\ text = PageMarker(2) \o NL \o l_rowB

\* the whitespace-separated tokens of a line
Tokens(ln) ==
    LET n == Len(ln)
        starts == {i \in 1..n : ln[i] # " " /\ (i = 1 \/ ln[i - 1] = " ")}
    IN  {SubSeq(ln, i, SetMin({j \in i..n : ln[j] = " "} \cup {n + 1}) - 1) : i \in starts}

\* the values, in hundredths, of the currency tokens of a line
CurrencyAmounts(ln) ==
    {ParseAmount(Tail(t)).cents : t \in {x \in Tokens(ln) : x[1] = "$"}}

\* C7: the rent of a table row is the largest of its currency amounts above 100,
\* and no rent is set when it has none; the digits of the unit number and of the
\* unit-type code are no amounts.
C7_RentIsLargestCurrencyAmount ==
    (pc = "done" /\ record # None) =>
        LET big == {c \in CurrencyAmounts(line) : c > 100 * 100}
        IN  IF big = {} THEN "rent_amount" \notin DOMAIN record
            ELSE Get(record, "rent_amount") = Float(SetMax(big))

\* C8: the records extract_structured_data returns have pairwise distinct unit numbers.
C8_OneRecordPerUnit ==
    Called("extract_structured_data") =>
        \A i, j \in 1..Len(structured_data) :
            i # j => Get(structured_data[i], "unit_number") # Get(structured_data[j], "unit_number")

\* the field-sets of data_points that carry a value for field k of unit u
Carrying(u, k) ==
    {i \in 1..Len(data_points) :
        /\ Get(data_points[i], "unit_number") = u
        /\ k \in DOMAIN data_points[i]
        /\ Truthy(data_points[i][k])}

\* C9: _consolidate_data returns one record for every unit number of its input,
\* and in it every field has the value of the earliest field-set of that unit that
\* carries a non-empty (truthy) value for it; a field no field-set carries is
\* not set.
C9_FirstNonEmptyWins ==
    pc = "done" =>
        /\ \A i \in 1..Len(data_points) :
              "unit_number" \in DOMAIN data_points[i] =>
                  Cardinality({j \in 1..Len(consolidated) :
                                  consolidated[j].unit_number = data_points[i].unit_number}) = 1
        /\ \A j \in 1..Len(consolidated) : \A k \in {"unit_number", "rent_amount", "tenant_name"} :
              IF Carrying(consolidated[j].unit_number, k) = {}
              THEN k \notin DOMAIN consolidated[j]
              ELSE consolidated[j][k]
                       = data_points[SetMin(Carrying(consolidated[j].unit_number, k))][k]

\* rents 1500 then 1600 for unit 01-101 give 1500
C9_Witness ==
    /\ pc = "done"
    /\ data_points = <<Fields([unit_number |-> u_101, rent_amount |-> Float(150000)]),
                       Fields([unit_number |-> u_101, rent_amount |-> Float(160000)])>>
    /\ Len(consolidated) = 1
    /\ consolidated[1].rent_amount = Float(150000)

\* the value of a rent or an area, in hundredths, 0 when there is none
Amount(d, k) ==
    IF k \notin DOMAIN d THEN 0
    ELSE CASE d[k].t \in {"float", "Decimal"} -> d[k].v
           [] d[k].t = "int" -> 100 * d[k].v
           [] OTHER -> 0

Bracket(amount, b3, b2, b1) ==
    IF amount > 100 * b3 THEN s_3BR
    ELSE IF amount > 100 * b2 THEN s_2BR
    ELSE IF amount > 100 * b1 THEN s_1BR
    ELSE s_Studio

\* C10: for a record without explicit unit type, the inferred type is the rent
\* bracket of a positive rent whatever the area, else the area bracket of a
\* positive area, else Unknown.
C10_RentBracketsFirst ==
    pc = "done" =>
        unit_type = IF Amount(data, "rent_amount") > 0
                    THEN Bracket(Amount(data, "rent_amount"), 2000, 1500, 1000)
                    ELSE IF Amount(data, "area_sqft") > 0
                    THEN Bracket(Amount(data, "area_sqft"), 1200, 800, 500)
                    ELSE s_Unknown

\* the bedroom digit d of a unit-type code MBL<d>AC<n>, 0 for any other value
MblDigit(x) ==
    IF x.t = "str" /\ Len(x.v) >= 6 /\ SubSeq(x.v, 1, 3) = s_MBL
       /\ x.v[4] \in {"1", "2", "3"} /\ SubSeq(x.v, 5, 6) = <<"A", "C">>
       /\ \A i \in 7..Len(x.v) : x.v[i] \in Digit
    THEN DigitVal(x.v[4]) ELSE 0

\* C11: a record whose unit_type is a code MBL<d>AC<n>, d in 1..3, is built into
\* a unit of type <d>BR, whatever n, the rent and the area.
C11_MblCodeGivesBedrooms ==
    pc = "built" =>
        \A i \in 1..Len(validated_data) :
            MblDigit(Get(validated_data[i], "unit_type")) > 0 =>
                unit_records[i].unit_type
                    = Str(<<DigitChar(MblDigit(Get(validated_data[i], "unit_type")))>> \o <<"B", "R">>)

NonEmptyUnit(r) ==
    "unit_number" \in DOMAIN r /\ r.unit_number.t = "str" /\ Len(r.unit_number.v) > 0
IsNumber(x) == x.t \in {"float", "int", "Decimal"}
Hundredths(x) == IF x.t = "int" THEN 100 * x.v ELSE x.v

\* record out is record in with at most its rent, area and tenant name set to
\* None, each only when it is no number (no cleanable name), and a status added
KeptWithNulls(in, out) ==
    /\ DOMAIN in \subseteq DOMAIN out
    /\ DOMAIN out \subseteq DOMAIN in \cup {"status"}
    /\ \A k \in DOMAIN in \ {"rent_amount", "area_sqft", "tenant_name"} : out[k] = in[k]
    /\ \A k \in DOMAIN in \cap {"rent_amount", "area_sqft"} :
          IF IsNumber(in[k]) THEN out[k] # None ELSE out[k] = None
    /\ "tenant_name" \in DOMAIN in => out.tenant_name \in {None, in.tenant_name}

\* C12: validate_extracted_data raises nothing and returns, in input order, the
\* input records that have a non-empty unit_number, one for one; a record whose
\* rent, area or tenant name cannot be coerced or cleaned stays, with that field None.
C12_ValidateKeepsRecords ==
    [][pc = "validate" =>
          /\ pc' = "returned" /\ raised' = "none"
          /\ Len(validated_data') = Len(SelectSeq(structured_data, NonEmptyUnit))
          /\ \A i \in 1..Len(validated_data') :
                KeptWithNulls(SelectSeq(structured_data, NonEmptyUnit)[i], validated_data'[i])
      ]_vars

\* of a record without unit number and a record with rent 'abc' and area 600, the
\* second is returned with rent None and area 600
C12_Witness ==
    /\ pc = "returned"
    /\ Len(structured_data) = 2 /\ ~NonEmptyUnit(structured_data[1])
    /\ validated_data
         = <<Fields([unit_number |-> u_101, rent_amount |-> None, area_sqft |-> PyInt(600),
                     status |-> Str(s_vacant)])>>

\* C13: a rent or an area that is a number is kept by validate_extracted_data
\* with its value, also outside [0, 50000] and [100, 10000]; its record stays.
C13_OutOfRangeKept ==
    [][pc = "validate" =>
          /\ Len(validated_data') = Len(SelectSeq(structured_data, NonEmptyUnit))
          /\ \A i \in 1..Len(validated_data') :
                \A k \in DOMAIN SelectSeq(structured_data, NonEmptyUnit)[i]
                            \cap {"rent_amount", "area_sqft"} :
                    IsNumber(SelectSeq(structured_data, NonEmptyUnit)[i][k]) =>
                        /\ IsNumber(validated_data'[i][k])
                        /\ Hundredths(validated_data'[i][k])
                              = Hundredths(SelectSeq(structured_data, NonEmptyUnit)[i][k])
      ]_vars

\* rent 60000 and area 15000 are returned as 60000 and 15000
C13_Witness ==
    /\ pc = "returned"
    /\ validated_data
         = <<Fields([unit_number |-> u_101, rent_amount |-> Decimal(6000000),
                     area_sqft |-> PyInt(15000), status |-> Str(s_vacant)])>>

SummaryCounts == {"total_units", "occupied_units", "vacant_units", "total_rent", "total_area"}

\* C14: extract_summary_statistics of the empty list returns a summary in which
\* total_units, occupied_units, vacant_units, total_rent and total_area are
\* present and zero.
C14_EmptySummaryAllZero ==
    (pc = "summarized" /\ validated_data = <<>>) =>
        \A k \in SummaryCounts : k \in DOMAIN summary /\ summary[k].v = 0

CountStatus(records, s) == Len(SelectSeq(records, LAMBDA r : Get(r, "status") = Str(s)))

\* C15: for a non-empty list total_units is the number of records, occupied_units
\* the number with status 'occupied' and vacant_units the number with status
\* 'vacant'; a record of status 'unknown' counts as neither.
C15_CountsByStatus ==
    (pc = "summarized" /\ validated_data # <<>>) =>
        /\ summary.total_units = PyInt(Len(validated_data))
        /\ summary.occupied_units = PyInt(CountStatus(validated_data, s_occupied))
        /\ summary.vacant_units = PyInt(CountStatus(validated_data, s_vacant))

\* C16: a machine-readable document whose only data line is the row of the vacant
\* unit 02-105 (type MBL3AC60, rent $1,306.00) is processed into exactly one
\* record, with that unit number, type, rent 1306.00, status vacant and no tenant;
\* the page-marker line contributes no record.
C16_OneRecordForOneDataLine ==
    (pc = "returned" /\ doc.pages = <<PgVacant>> /\ is_readable) =>
        validated_data
          = <<[unit_number |-> u_02105, unit_type |-> t_MBL3AC60,
               rent_amount |-> Decimal(130600), status |-> Str(s_vacant)]>>

Finished(run) == run.pc \in {"returned", "raised"}

PassingLines(txt) ==
    SelectSeq([k \in 1..Len(SplitLines(txt)) |-> Strip(SplitLines(txt)[k])],
              LAMBDA ln : unit_number_search(ln).found /\ Len(rent_amount_findall(ln)) > 0)

RowsOf(lines) == [k \in 1..Len(lines) |-> _parse_table_row(lines[k])]

\* C20: the strategy is chosen per text: when at least one line has both a unit
\* number match and a currency match, the call returns the table-row records of
\* exactly those lines and the line fallback does not run; the fallback runs
\* exactly when no line passes the test.
C20_TableRowsOrFallback ==
    [][\A i \in 1..Len(runs) :
          (runs[i].pc = "table" /\ runs'[i] # runs[i]) =>
              IF Len(PassingLines(runs[i].text)) > 0
              THEN /\ runs'[i].pc = "returned"
                   /\ runs'[i].result = RowsOf(PassingLines(runs[i].text))
              ELSE runs'[i].pc = "fallback"
      ]_vars

\* a text of a title and a row has returned the record of the row alone, while a
\* text of a title alone is in the line fallback
C20_Witness ==
    /\ Len(runs) = 2
    /\ runs[1].text = l_title \o NL \o l_rowB
    /\ runs[1].pc = "returned" /\ Len(runs[1].result) = 1
    /\ runs[2].text = l_title /\ runs[2].pc = "fallback"

\* C19: for a readable document pdfplumber is called first and PyMuPDF only
\* after pdfplumber returned blank text; when the pdfplumber text is not blank,
\* PyMuPDF is never called and the pdfplumber text is the text returned.
C19_PdfplumberFirst ==
    is_readable =>
        /\ \A i \in 1..Len(calls) :
              calls[i] = "extract_text_pymupdf" =>
                  /\ i > 1 /\ calls[i - 1] = "extract_text_pdfplumber"
                  /\ IsBlank(extract_text_pdfplumber(doc))
        /\ (pc \in {"check_text", "extract", "validate", "returned"}
              /\ HasInk(extract_text_pdfplumber(doc))) =>
                  /\ ~Called("extract_text_pymupdf")
                  /\ text = extract_text_pdfplumber(doc)

\* a readable document has been returned with the non-blank pdfplumber text
C19_Witness ==
    /\ pc = "returned" /\ is_readable
    /\ HasInk(text) /\ text = extract_text_pdfplumber(doc)
    /\ Called("extract_text_pdfplumber") /\ ~Called("extract_text_pymupdf")

\* the window from position a is cut at a sentence end: text remains beyond its
\* 1000 characters and a '.' lies at an index above 700 in it
CutAtPeriod(txt, a) ==
    /\ a + 1000 < txt.len
    /\ \E p \in txt.periods : p - a > 700 /\ p - a < 1000

LastPeriod(txt, a) == SetMax({p \in txt.periods : p - a > 700 /\ p - a < 1000})

\* C18: with the default parameters the windows of _split_text have at most 1000
\* characters, every window after the first starts exactly 200 characters before
\* the end of the previous window, and a window is shorter than the text allows
\* only when text remains beyond it and a '.' lies at an index above 700, and then
\* it ends just after the last such '.'.
C18_WindowsOverlapBy200 ==
    pc = "split_done" =>
        \A i \in 1..Len(chunks) :
            /\ chunks[i].window.to - chunks[i].window.from <= 1000
            /\ i > 1 => chunks[i].window.from = chunks[i - 1].window.to - 200
            /\ chunks[i].window.to
                 = IF CutAtPeriod(long_text, chunks[i].window.from)
                   THEN LastPeriod(long_text, chunks[i].window.from) + 1
                   ELSE IF chunks[i].window.from + 1000 < long_text.len
                        THEN chunks[i].window.from + 1000 ELSE long_text.len

HasVacantWord(ln) == Contains(ln, s_Vacant) \/ Contains(ln, s_Available)
HasOccupiedWord(ln) == Contains(ln, s_Occupied) \/ Contains(ln, s_Rented)

\* C21: in both strategies a line containing Vacant or Available gets status
\* vacant, also when it contains Occupied or Rented; otherwise a line containing
\* Occupied or Rented gets status occupied; a table row with none of the four
\* words gets status unknown.
C21_StatusKeywordPrecedence ==
    /\ pc = "done" =>
          record.status = IF HasVacantWord(line) THEN Str(s_vacant)
                          ELSE IF HasOccupiedWord(line) THEN Str(s_occupied)
                          ELSE Str(s_unknown)
    /\ pc = "extracted" =>
          /\ HasVacantWord(line) => Get(line_data, "status") = Str(s_vacant)
          /\ (~HasVacantWord(line) /\ HasOccupiedWord(line)) =>
                Get(line_data, "status") = Str(s_occupied)

\* a capitalised word: an upper-case letter followed by lower-case letters only
IsCapitalised(w) ==
    Len(w) >= 2 /\ w[1] \in Upper /\ \A i \in 2..Len(w) : w[i] \in Lower

MaximalWords(s) ==
    {SubSeq(s, i, j) : <<i, j>> \in
        {p \in (1..Len(s)) \X (1..Len(s)) :
            /\ p[1] <= p[2]
            /\ \A k \in p[1]..p[2] : s[k] \in Letter
            /\ (p[1] = 1 \/ s[p[1] - 1] \notin Letter)
            /\ (p[2] = Len(s) \/ s[p[2] + 1] \notin Letter)}}

\* C22: a table row carries a tenant_name only when its status is occupied, and
\* the name is made of capitalised words and contains none of the words Unit,
\* Rent, Total, Notice, Occupied, Vacant, Status; the unit-type code and other
\* upper-case tokens are never taken as the tenant name.
C22_TenantOnlyProperCaseWhenOccupied ==
    (pc = "done" /\ record # None /\ "tenant_name" \in DOMAIN record) =>
        /\ record.status = Str(s_occupied)
        /\ \A w \in MaximalWords(record.tenant_name.v) : IsCapitalised(w)
        /\ \A k \in 1..Len(non_names) : ~Contains(record.tenant_name.v, non_names[k])
        /\ ~Contains(p_code, record.tenant_name.v)

\* the dates found on a line: its date matches that parse_date accepts
DatesFound(ln) == ParsedDates(date_findall(ln))

\* C23: a table row on which exactly two dates are found gets the first as
\* lease_start and the second as lease_end; with exactly one date found it gets
\* lease_start and no lease_end; lease_end is never set without lease_start, and
\* lease dates are set only on rows with exactly one or exactly two dates.
C23_LeaseDatesForOneOrTwoDates ==
    (pc = "done" /\ record # None) =>
        /\ Len(DatesFound(line)) = 2 =>
              /\ Get(record, "lease_start") = DatesFound(line)[1]
              /\ Get(record, "lease_end") = DatesFound(line)[2]
        /\ Len(DatesFound(line)) = 1 =>
              /\ Get(record, "lease_start") = DatesFound(line)[1]
              /\ "lease_end" \notin DOMAIN record
        /\ "lease_end" \in DOMAIN record => "lease_start" \in DOMAIN record
        /\ "lease_start" \in DOMAIN record => Len(DatesFound(line)) \in {1, 2}

\* C23 as amended: a table row on which two or more dates are found gets the
\* first as lease_start and the second as lease_end; with exactly one date found
\* it gets lease_start and no lease_end; with none it gets neither.
C23_LeaseDatesAmended ==
    (pc = "done" /\ record # None) =>
        /\ Len(DatesFound(line)) >= 2 =>
              /\ Get(record, "lease_start") = DatesFound(line)[1]
              /\ Get(record, "lease_end") = DatesFound(line)[2]
        /\ Len(DatesFound(line)) = 1 =>
              /\ Get(record, "lease_start") = DatesFound(line)[1]
              /\ "lease_end" \notin DOMAIN record
        /\ Len(DatesFound(line)) = 0 =>
              /\ "lease_start" \notin DOMAIN record
              /\ "lease_end" \notin DOMAIN record

\* a row with three dates has the first two as its lease dates
C23_Witness ==
    /\ pc = "done"
    /\ Len(DatesFound(line)) = 3
    /\ Get(record, "lease_start") = Date(2024, 1, 15)
    /\ Get(record, "lease_end") = Date(2024, 12, 31)

\* the name after the artifact substrings are stripped, and that without spaces
Remainder(v) == StripArtifacts(Strip(v), 1)
NoSpaces(s) == SelectSeq(s, LAMBDA c : c # " ")

\* C24: validate_extracted_data keeps a tenant name, as the remainder after the
\* artifacts '$', ',', 'rent', 'total', 'unit' are stripped, exactly when that
\* remainder with its spaces removed is alphabetic and longer than 2 characters,
\* and sets tenant_name to None otherwise; a kept name contains no artifact.
C24_TenantKeptIffAlphabetic ==
    [][(pc = "validate" /\ Len(structured_data) = 1 /\ NonEmptyUnit(structured_data[1])
          /\ Truthy(Get(structured_data[1], "tenant_name"))) =>
            /\ validated_data'[1].tenant_name
                 = IF /\ IsAlpha(NoSpaces(Remainder(structured_data[1].tenant_name.v)))
                      /\ Len(NoSpaces(Remainder(structured_data[1].tenant_name.v))) > 2
                   THEN Str(Remainder(structured_data[1].tenant_name.v))
                   ELSE None
            /\ validated_data'[1].tenant_name # None =>
                  \A k \in 1..Len(artifacts) :
                      ~Contains(validated_data'[1].tenant_name.v, artifacts[k])
      ]_vars

\* C25: every record validate_extracted_data returns has a non-empty unit_number
\* and a status among occupied, vacant and unknown; a record that arrives without
\* status gets occupied exactly when its tenant_name is still there after the
\* cleaning, else vacant, which is the default _consolidate_data applies.
C25_StatusAlwaysSet ==
    [][pc = "validate" =>
          /\ Len(validated_data') = Len(SelectSeq(structured_data, NonEmptyUnit))
          /\ \A i \in 1..Len(validated_data') :
                /\ NonEmptyUnit(validated_data'[i])
                /\ validated_data'[i].status
                     \in {Str(s_occupied), Str(s_vacant), Str(s_unknown)}
                /\ "status" \notin DOMAIN SelectSeq(structured_data, NonEmptyUnit)[i] =>
                      /\ validated_data'[i].status
                           = IF Truthy(Get(validated_data'[i], "tenant_name"))
                             THEN Str(s_occupied) ELSE Str(s_vacant)
                      /\ validated_data'[i]
                           = DefaultStatus([k \in DOMAIN validated_data'[i] \ {"status"} |->
                                               validated_data'[i][k]])
      ]_vars

\* a record whose tenant name did not survive the cleaning has been returned
\* with tenant_name None and status vacant
C25_Witness ==
    /\ pc = "returned"
    /\ validated_data
         = <<[unit_number |-> u_101, tenant_name |-> None, status |-> Str(s_vacant)]>>

\* the unit type of the rent bracket of a positive rent, in hundredths
RentBracket(cents) ==
    IF cents > 200000 THEN s_3BR
    ELSE IF cents > 150000 THEN s_2BR
    ELSE IF cents > 100000 THEN s_1BR
    ELSE s_Studio

\* C27: in the pipeline a validated record without explicit unit_type and with a
\* positive rent is built into a unit of the type of the rent's bracket, never
\* of a type derived from its area and never 'Unknown'.
C27_PipelineRentBracket ==
    pc = "built" =>
        \A i \in 1..Len(validated_data) :
            ("unit_type" \notin DOMAIN validated_data[i]
                /\ IsNumber(Get(validated_data[i], "rent_amount"))
                /\ Hundredths(Get(validated_data[i], "rent_amount")) > 0) =>
                    unit_records[i].unit_type
                        = Str(RentBracket(Hundredths(validated_data[i].rent_amount)))

C26_InvalidPdfRejectedWith400 ==
    (pc = "responded" /\ temp_path /\ ~validate_pdf_file(doc)) =>
        /\ status_code = 400
        /\ detail = "Invalid PDF file"
        /\ temp_file = "deleted"
        /\ background_tasks = "none"

\* C29: every temporary file upload_document creates is deleted and never outlives
\* its processing: once the handler has answered without scheduling a task, or
\* once the background task has finished, the file no longer exists.
C29_TempFileNeverOutlivesProcessing ==
    (\/ pc = "responded" /\ background_tasks = "none"
     \/ pc = "task_done") => temp_file # "exists"

\* C30: for every text and every chunk_size and overlap with
\* 0 <= overlap < chunk_size, each iteration of _split_text, also one that cuts
\* the window at a sentence boundary, leaves start strictly greater than it
\* found it, so that the loop terminates.
C30_StartStrictlyIncreases ==
    [][chunks' # chunks => start' > start]_vars

====
